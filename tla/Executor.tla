------------------------------ MODULE Executor ------------------------------
(***************************************************************************)
(* The transaction and block executors (execution/executor.rs,             *)
(* execution/mod.rs, execution/gas.rs), with the VM they run.  The         *)
(* executor keeps its own cache of accounts in front of the state manager; *)
(* the vault, called for transfers, writes the state manager directly.     *)
(***************************************************************************)
EXTENDS Vm
LOCAL INSTANCE FiniteSets

CONSTANTS ExBlocks,       \* blocks: sequences of transactions
          ExCalls,        \* [code, gas] given to call_contract and deploy_contract
          ExBalances,     \* the accounts at the start -> balance
          ExGasLimit,     \* the limit execute_block gives each context
          ExBaseGas, ExCreationGas, \* TX_BASE_GAS with the data's gas, CONTRACT_CREATION_GAS
          ExMinBalance,   \* MIN_BALANCE
          ExMaxRuns       \* bound: blocks and calls

ZeroAddress == 0

VARIABLES stateAccounts,  \* the state manager: address -> account
          account_cache,  \* the executor's copies
          codes,          \* CodeStorage: address -> code
          exBlock, exIndex, \* the block in execution and the transaction reached
          exAt, context,
          exResult,       \* the last result reported
          exRuns

exVars == <<vm, vmSteps, stateAccounts, account_cache, codes, exBlock, exIndex, exAt, context, exResult, exRuns>>

NoResult == [success |-> FALSE, gas_used |-> 0, paid |-> 0, ran |-> FALSE]

Placed(f, a, v) == [x \in DOMAIN f \cup {a} |-> IF x = a THEN v ELSE f[x]]

ExecutorTypeOK ==
    /\ exAt \in {"idle", "validate", "transfer", "call", "create", "run", "view", "deploy", "hung", "dead"}
    /\ context.gas_used \in Nat /\ context.gas_limit \in Nat
    /\ DOMAIN account_cache \subseteq DOMAIN stateAccounts

ExIdle ==
    /\ stateAccounts = [a \in DOMAIN ExBalances |-> [balance |-> ExBalances[a], nonce |-> 0]]
    /\ account_cache = <<>> /\ codes = <<>>
    /\ exBlock = <<>> /\ exIndex = 0 /\ exAt = "idle"
    /\ context = [gas_limit |-> 0, gas_used |-> 0] /\ exResult = NoResult /\ exRuns = 0

ExInit == vm = VmNew(<<>>, 0) /\ vmSteps = 0 /\ ExIdle

tx == exBlock[exIndex]
code_exists(a) == a \in DOMAIN codes
intrinsic_gas(creation) == ExBaseGas + (IF creation THEN ExCreationGas ELSE 0)
NewContext(limit) == [gas_limit |-> limit, gas_used |-> 0]

remaining_gas_mutant(c) == c.gas_limit
remaining_gas(c) == IF c.gas_used > c.gas_limit THEN 0 ELSE c.gas_limit - c.gas_used

(* ExecutionContext::use_gas; a refusal leaves the context as it was.       *)
Used(c, amount) == IF use_gas(c, amount) THEN [c EXCEPT !.gas_used = @ + amount] ELSE c

generate_contract_address(sender, nonce) == 100 * sender + nonce

execute_block ==
    /\ exAt = "idle" /\ exRuns < ExMaxRuns /\ exRuns' = exRuns + 1
    /\ \E block \in ExBlocks : exBlock' = block
    /\ exIndex' = 1 /\ exAt' = "validate" /\ context' = NewContext(ExGasLimit) /\ exResult' = NoResult
    /\ UNCHANGED <<vm, vmSteps, stateAccounts, account_cache, codes>>

(* An error leaves execute_block at once: what the transactions before it   *)
(* wrote stays, and no result is reported.                                  *)
BlockAborts ==
    /\ exAt' = "idle" /\ exBlock' = <<>> /\ exIndex' = 0 /\ exResult' = NoResult

(* The result of a transaction; the first failure ends the block.           *)
Reports(success, c, paid, ran) ==
    /\ exResult' = [success |-> success, gas_used |-> c.gas_used, paid |-> paid, ran |-> ran]
    /\ IF success /\ exIndex < Len(exBlock)
       THEN exIndex' = exIndex + 1 /\ exAt' = "validate" /\ context' = NewContext(ExGasLimit) /\ UNCHANGED exBlock
       ELSE exBlock' = <<>> /\ exIndex' = 0 /\ exAt' = "idle" /\ context' = c

(* get_account: the cache, then the state manager, which fills the cache.   *)
KnownAccount(a) == a \in DOMAIN account_cache \cup DOMAIN stateAccounts
AccountOf(a) == IF a \in DOMAIN account_cache THEN account_cache[a] ELSE stateAccounts[a]

validate_transaction ==
    /\ exAt = "validate" /\ UNCHANGED <<vm, vmSteps, stateAccounts, codes, exRuns>>
    /\ IF KnownAccount(tx.from)
       THEN /\ account_cache' = Placed(account_cache, tx.from, AccountOf(tx.from))
            /\ IF tx.nonce < AccountOf(tx.from).nonce \/ AccountOf(tx.from).balance < tx.amount + tx.fee
               THEN BlockAborts /\ UNCHANGED context
               ELSE LET least == intrinsic_gas(code_exists(tx.to))
                    IN /\ context' = [context EXCEPT !.gas_limit = IF least > @ THEN least ELSE @]
                       /\ exAt' = IF code_exists(tx.to) THEN "call"
                                  ELSE IF tx.to = ZeroAddress THEN "create" ELSE "transfer"
                       /\ UNCHANGED <<exBlock, exIndex, exResult>>
       ELSE BlockAborts /\ UNCHANGED <<account_cache, context>>

(* VaultManager::transfer, on the state manager's accounts; the vault       *)
(* counts the sender's nonce too.  A fee with a burn never returns.         *)
TransferRefused(amount, fee) ==
    \/ amount < ExMinBalance \/ tx.from = tx.to
    \/ stateAccounts[tx.from].balance < amount + fee
FeeBurns(fee) == (60 * fee) \div 100 > 0
Transferred(amount, fee) ==
    LET to == IF tx.to \in DOMAIN stateAccounts THEN stateAccounts[tx.to] ELSE [balance |-> 0, nonce |-> 0]
        debited == [stateAccounts EXCEPT ![tx.from] = [balance |-> @.balance - amount - fee, nonce |-> @.nonce + 1]]
    IN Placed(debited, tx.to, [to EXCEPT !.balance = @ + amount])

(* The sender's account as the executor writes it back: from its own cache. *)
Counted(cost) ==
    LET account == account_cache[tx.from]
    IN [balance |-> IF account.balance < cost THEN 0 ELSE account.balance - cost, nonce |-> account.nonce + 1]

execute_transfer ==
    LET c == Used(context, intrinsic_gas(FALSE))
    IN /\ exAt = "transfer" /\ UNCHANGED <<vm, vmSteps, codes, exRuns>>
       /\ IF ~use_gas(context, intrinsic_gas(FALSE))
          THEN Reports(FALSE, context, 0, FALSE) /\ UNCHANGED <<stateAccounts, account_cache>>
          ELSE IF TransferRefused(tx.amount, tx.fee)
          THEN BlockAborts /\ context' = c /\ UNCHANGED <<stateAccounts, account_cache>>
          ELSE IF FeeBurns(tx.fee)
          THEN exAt' = "hung" /\ UNCHANGED <<stateAccounts, account_cache, exBlock, exIndex, context, exResult>>
          ELSE /\ account_cache' = Placed(account_cache, tx.from, Counted(0))
               /\ stateAccounts' = Placed(Transferred(tx.amount, tx.fee), tx.from, Counted(0))
               /\ Reports(TRUE, c, intrinsic_gas(FALSE), FALSE)

(* VM::new with the gas that is left.                                       *)
StartsVm(code, limit, at) ==
    /\ vm' = VmNew(code, limit) /\ vmSteps' = 0 /\ exAt' = at

execute_contract_call ==
    LET c == Used(context, intrinsic_gas(FALSE))
    IN /\ exAt = "call" /\ UNCHANGED <<account_cache, codes, exRuns>>
       /\ IF ~use_gas(context, intrinsic_gas(FALSE))
          THEN Reports(FALSE, context, 0, FALSE) /\ UNCHANGED <<vm, vmSteps, stateAccounts>>
          ELSE IF tx.amount > 0 /\ TransferRefused(tx.amount, 0)
          THEN BlockAborts /\ context' = c /\ UNCHANGED <<vm, vmSteps, stateAccounts>>
          ELSE /\ stateAccounts' = IF tx.amount > 0 THEN Transferred(tx.amount, 0) ELSE stateAccounts
               /\ context' = c /\ StartsVm(codes[tx.to], remaining_gas(c), "run")
               /\ UNCHANGED <<exBlock, exIndex, exResult>>

(* The code run to create a contract is the transaction's signature.        *)
execute_contract_creation ==
    LET c == Used(context, intrinsic_gas(TRUE))
    IN /\ exAt = "create" /\ UNCHANGED <<stateAccounts, account_cache, codes, exRuns>>
       /\ IF ~use_gas(context, intrinsic_gas(TRUE))
          THEN Reports(FALSE, context, 0, FALSE) /\ UNCHANGED <<vm, vmSteps>>
          ELSE /\ context' = c /\ StartsVm(tx.signature, remaining_gas(c), "run")
               /\ UNCHANGED <<exBlock, exIndex, exResult>>

RunSteps ==
    /\ exAt \in {"run", "view", "deploy"} /\ VmNext
    /\ UNCHANGED <<stateAccounts, account_cache, codes, exBlock, exIndex, exAt, context, exResult, exRuns>>

(* The bytes a program returns, read as code by the next call.              *)
CodeOf(data) == [i \in 1..Len(data) |-> from_u8(data[i])]

(* The program ended: its gas is charged to the context, and a success      *)
(* writes the nonce, the new contract's code and its account.               *)
RunEnds ==
    LET c == Used(context, vm.gas_used)
        creation == tx.to = ZeroAddress
        paid == intrinsic_gas(creation)
        address == generate_contract_address(tx.from, tx.nonce)
    IN /\ exAt = "run" /\ ~VmRunning /\ vm.error # "Panic" /\ UNCHANGED <<vm, vmSteps, exRuns>>
       /\ IF vm.error = "none"
          THEN LET from == Counted(IF creation THEN tx.amount + tx.fee ELSE 0)
                   sender(f) == Placed(f, tx.from, from)
                   made(f) == IF creation THEN Placed(f, address, [balance |-> tx.amount, nonce |-> 1]) ELSE f
               IN /\ account_cache' = made(sender(account_cache))
                  /\ stateAccounts' = made(sender(stateAccounts))
                  /\ codes' = IF creation THEN Placed(codes, address, CodeOf(vm.return_data)) ELSE codes
          ELSE UNCHANGED <<account_cache, stateAccounts, codes>>
       /\ Reports(vm.error = "none", c, paid, TRUE)

(* call_contract and deploy_contract run a program with a limit of their    *)
(* own and no account; deploy_contract stores what it returns under the     *)
(* deployer and the index of the transaction.                               *)
call_contract ==
    /\ exAt = "idle" /\ exRuns < ExMaxRuns /\ exRuns' = exRuns + 1
    /\ \E call \in ExCalls : \E a \in DOMAIN codes :
         StartsVm(codes[a], call.gas, "view") /\ context' = NewContext(call.gas)
    /\ exResult' = NoResult
    /\ UNCHANGED <<stateAccounts, account_cache, codes, exBlock, exIndex>>

deploy_contract ==
    /\ exAt = "idle" /\ exRuns < ExMaxRuns /\ exRuns' = exRuns + 1
    /\ \E call \in ExCalls : StartsVm(call.code, call.gas, "deploy") /\ context' = NewContext(call.gas)
    /\ exResult' = NoResult
    /\ UNCHANGED <<stateAccounts, account_cache, codes, exBlock, exIndex>>

CallEnds ==
    /\ exAt \in {"view", "deploy"} /\ ~VmRunning /\ vm.error # "Panic" /\ exAt' = "idle"
    /\ exResult' = [success |-> vm.error = "none", gas_used |-> vm.gas_used, paid |-> 0, ran |-> TRUE]
    /\ codes' = IF exAt = "deploy" /\ vm.error = "none"
                THEN Placed(codes, generate_contract_address(1, 0), CodeOf(vm.return_data)) ELSE codes
    /\ UNCHANGED <<vm, vmSteps, stateAccounts, account_cache, exBlock, exIndex, context, exRuns>>

(* A panic ends the task.                                                   *)
RunPanics ==
    /\ exAt \in {"run", "view", "deploy"} /\ vm.error = "Panic" /\ exAt' = "dead"
    /\ UNCHANGED <<vm, vmSteps, stateAccounts, account_cache, codes, exBlock, exIndex, context, exResult, exRuns>>

ExNext ==
    \/ execute_block \/ validate_transaction \/ execute_transfer
    \/ execute_contract_call \/ execute_contract_creation
    \/ call_contract \/ deploy_contract
    \/ RunSteps \/ RunEnds \/ CallEnds \/ RunPanics

(* A result never reports more gas than its limit, and the gas it reports   *)
(* beyond the intrinsic gas pays for every step of the program but its      *)
(* last: the executor charges the program's gas with a call whose refusal   *)
(* it ignores, so this rests on the limit the VM is given.                  *)
GasPaysForSteps ==
    /\ exAt = "idle" => context.gas_used <= context.gas_limit
    /\ exAt \in {"idle", "validate"} /\ exResult.ran => vmSteps <= exResult.gas_used - exResult.paid + 1
============================================================================
