-------------------------- MODULE Contracts_proofs --------------------------
(***************************************************************************)
(* Proofs about the built-in contracts, for any people, amounts, calls and *)
(* times: the vesting schedule, and that stakes and open bridge requests   *)
(* stay covered by the balances of the contracts that hold them.           *)
(***************************************************************************)
EXTENDS Contracts, Vault_proofs, Sequences

-----------------------------------------------------------------------------
(* The vesting contract.  Only release debits it, so what it holds and what *)
(* it has released add up to at least the founder's amount; transfers to it *)
(* can only raise the sum.                                                  *)
PaymentsTyped ==
    /\ validators \in [People -> [owner : People \cup {Nobody}, stake : Nat, isActive : BOOLEAN]]
    /\ DOMAIN requests \subseteq People \X (People \cup {Nobody}) \X Amounts \X Nat

VestInv ==
    /\ balanceOf \in [Holders -> Nat]
    /\ beneficiary \in People /\ now \in Nat
    /\ PaymentsTyped
    /\ released \in Nat /\ released <= vestedAmount
    /\ distributed => balanceOf[Vesting] + released >= FounderAmount

(* A payment that the payer covers leaves balances, and takes from nobody   *)
(* but the payer.                                                           *)
LEMMA MovedFacts ==
    ASSUME NEW b \in [Holders -> Nat], NEW from \in Holders, NEW to \in Holders,
           NEW v \in Nat, b[from] >= v
    PROVE  /\ Moved(b, from, to, v) \in [Holders -> Nat]
           /\ \A h \in Holders \ {from} : Moved(b, from, to, v)[h] >= b[h]
           /\ Moved(b, from, to, v)[from] >= b[from] - v
           /\ to # from => Moved(b, from, to, v)[to] = b[to] + v
<1> DEFINE c == [b EXCEPT ![from] = @ - v]
<1>1. c \in [Holders -> Nat] /\ c[from] = b[from] - v /\ \A h \in Holders \ {from} : c[h] = b[h]
  OBVIOUS
<1>2. Moved(b, from, to, v) = [c EXCEPT ![to] = @ + v]
  BY Zenon DEF Moved
<1> HIDE DEF c
<1> QED BY <1>1, <1>2

LEMMA DivMonotone ==
    ASSUME NEW a \in Nat, NEW b \in Nat, NEW d \in Nat \ {0}, a <= b
    PROVE  a \div d <= b \div d
OBVIOUS

(* The schedule: between nothing and the whole, and never falling.          *)
LEMMA VestedFacts ==
    ASSUME now \in Nat
    PROVE  /\ vestedAmount \in Nat /\ vestedAmount <= FounderAmount
           /\ now' = now + 1 => vestedAmount <= vestedAmount'
<1> FounderAmount \in Nat /\ Cliff \in Nat /\ Duration \in Nat \ {0}
  BY ContractsAssumption, Zenon
<1> DEFINE At(t) == (FounderAmount * t) \div Duration
<1>1. \A t \in Nat : FounderAmount * t \in Nat /\ At(t) \in Nat
  OBVIOUS
<1>2. \A t \in Nat : t <= Duration => At(t) <= FounderAmount
  <2> SUFFICES ASSUME NEW t \in Nat, t <= Duration PROVE At(t) <= FounderAmount
    BY Zenon
  <2>1. FounderAmount * t <= FounderAmount * Duration
    OBVIOUS
  <2>2. (FounderAmount * Duration) \div Duration = FounderAmount
    OBVIOUS
  <2> QED BY <1>1, <2>1, <2>2, DivMonotone, ZenonT(60)
<1>3. \A t \in Nat : At(t) <= At(t + 1)
  <2> SUFFICES ASSUME NEW t \in Nat PROVE At(t) <= At(t + 1)
    BY Zenon
  <2>1. FounderAmount * t <= FounderAmount * (t + 1)
    OBVIOUS
  <2> QED BY <1>1, <2>1, DivMonotone
<1> HIDE DEF At
<1>4. vestedAmount = IF now < Cliff THEN 0 ELSE IF now >= Duration THEN FounderAmount ELSE At(now)
  BY Zenon DEF vestedAmount, At
<1>5. vestedAmount' = IF now' < Cliff THEN 0 ELSE IF now' >= Duration THEN FounderAmount ELSE At(now')
  BY Zenon DEF vestedAmount, At
<1>6. vestedAmount \in Nat /\ vestedAmount <= FounderAmount
  BY <1>1, <1>2, <1>4
<1>7. ASSUME now' = now + 1 PROVE vestedAmount <= vestedAmount'
  <2>1. CASE now < Cliff
    BY <1>1, <1>4, <1>5, <1>6, <1>7, <2>1
  <2>2. CASE now >= Cliff /\ now + 1 >= Duration
    BY <1>5, <1>6, <1>7, <2>2
  <2>3. CASE now >= Cliff /\ now + 1 < Duration
    BY <1>3, <1>4, <1>5, <1>6, <1>7, <2>3
  <2> QED BY <2>1, <2>2, <2>3
<1> QED BY <1>6, <1>7, Zenon

(* A payment from any account but the vesting contract's.                   *)
LEMMA PaymentKeeps ==
    ASSUME VestInv, PaymentsTyped',
           NEW from \in Holders \ {Vesting}, NEW to \in Holders, NEW v \in Nat, CanPay(from, v),
           balanceOf' = Moved(balanceOf, from, to, v),
           UNCHANGED <<distributed, released, beneficiary, now>>
    PROVE  VestInv'
<1>1. Vesting \in Holders
  BY Zenon DEF Holders
<1>2. balanceOf' \in [Holders -> Nat] /\ balanceOf'[Vesting] >= balanceOf[Vesting]
  BY <1>1, MovedFacts, Zenon DEF VestInv, CanPay
<1>3. vestedAmount' = vestedAmount
  BY Zenon DEF vestedAmount
<1> QED BY <1>1, <1>2, <1>3, ContractsAssumption DEF VestInv

(* The contracts' accounts are not people, and all of them hold tokens.     *)
LEMMA Accounts ==
    /\ People \subseteq Holders \ {Vesting}
    /\ {Token, Staking, Bridge} \subseteq Holders \ {Vesting}
    /\ Nobody \notin People /\ Vesting \in Holders /\ Vesting \notin People
    /\ Payees \subseteq Holders /\ Amounts \subseteq Nat /\ MinStake \in Nat
    /\ {FounderAmount, VaultAmount} \subseteq Nat
BY ContractsAssumption, Zenon DEF Holders

LEMMA DistributionKeeps ==
    ASSUME VestInv, NEW p \in People, NEW q \in People, executeGenesisDistribution(p, q)
    PROVE  VestInv'
<1> USE Accounts
<1> DEFINE b1 == Moved(balanceOf, Token, Vesting, FounderAmount)
           b2 == Moved(b1, Token, p, VaultAmount)
<1>1. /\ balanceOf \in [Holders -> Nat]
      /\ balanceOf[Token] >= FounderAmount + 2 * VaultAmount
  BY Zenon DEF VestInv, executeGenesisDistribution, CanPay
<1>2. /\ b1 \in [Holders -> Nat] /\ b1[Token] >= 2 * VaultAmount
      /\ b1[Vesting] >= FounderAmount
  BY <1>1, MovedFacts, SMTT(30)
<1> HIDE DEF b1
<1>3. /\ b2 \in [Holders -> Nat] /\ b2[Token] >= VaultAmount
      /\ b2[Vesting] >= FounderAmount
  <2>1. /\ Token \in Holders /\ p \in Holders /\ Vesting \in Holders \ {Token}
        /\ VaultAmount \in Nat /\ FounderAmount \in Nat
    BY Zenon
  <2>2. b1[Token] >= VaultAmount /\ b1[Token] - VaultAmount >= VaultAmount
    BY <1>2, <2>1
  <2>3. /\ b2 \in [Holders -> Nat] /\ b2[Token] >= b1[Token] - VaultAmount
        /\ b2[Vesting] >= b1[Vesting]
    BY <1>2, <2>1, <2>2, MovedFacts, Zenon
  <2> HIDE DEF b2
  <2> QED BY <1>2, <2>1, <2>2, <2>3
<1> HIDE DEF b2
<1>4. balanceOf' = Moved(b2, Token, q, VaultAmount)
  BY Zenon DEF executeGenesisDistribution, b1, b2
<1>5. balanceOf' \in [Holders -> Nat] /\ balanceOf'[Vesting] >= FounderAmount
  BY <1>3, <1>4, MovedFacts, SMTT(30)
<1>6. UNCHANGED <<staking, requests, vesting, now>> /\ vestedAmount' = vestedAmount
  BY Zenon DEF executeGenesisDistribution, vestedAmount
<1>7. PaymentsTyped'
  BY <1>6, Zenon DEF VestInv, PaymentsTyped, staking
<1> QED BY <1>5, <1>6, <1>7 DEF VestInv, vesting

(* What leaves the vesting contract is counted as released, and what is     *)
(* released catches up with the schedule and no further.                    *)
LEMMA ReleaseKeeps ==
    ASSUME VestInv, release
    PROVE  VestInv'
<1> DEFINE amount == vestedAmount - released
<1> HIDE DEF amount
<1>1. /\ amount > 0 /\ CanPay(Vesting, amount) /\ released' = released + amount
      /\ balanceOf' = Moved(balanceOf, Vesting, beneficiary, amount)
      /\ UNCHANGED <<distributed, staking, requests, beneficiary, now>>
  BY Zenon DEF release, AfterRelease, amount
<1>2. vestedAmount \in Nat /\ vestedAmount' = vestedAmount
  BY <1>1, VestedFacts, Zenon DEF VestInv, vestedAmount
<1>3. amount \in Nat /\ released' = vestedAmount'
  BY <1>1, <1>2 DEF VestInv, amount
<1>4. /\ balanceOf' \in [Holders -> Nat]
      /\ balanceOf'[Vesting] >= balanceOf[Vesting] - amount
  BY <1>1, <1>3, Accounts, MovedFacts, Zenon DEF VestInv, CanPay
<1>5. PaymentsTyped'
  BY <1>1, Zenon DEF VestInv, PaymentsTyped, staking
<1>6. distributed' => balanceOf'[Vesting] + released' >= FounderAmount
  <2>1. balanceOf[Vesting] \in Nat /\ balanceOf'[Vesting] \in Nat
    BY <1>4, Accounts, Zenon DEF VestInv
  <2> QED BY <1>1, <1>3, <1>4, <2>1, Accounts DEF VestInv
<1> QED BY <1>1, <1>2, <1>3, <1>4, <1>5, <1>6 DEF VestInv

(* The staking contract is paid by its validators and pays them.            *)
LEMMA StakingKeeps ==
    ASSUME VestInv, NEW p \in People,
           \/ registerValidator(p) \/ unregister(p)
           \/ \E v \in Amounts : increaseStake(p, v) \/ slash(p, v)
    PROVE  VestInv'
<1> USE Accounts
<1>1. validators[p] \in [owner : People \cup {Nobody}, stake : Nat, isActive : BOOLEAN]
  BY Zenon DEF VestInv, PaymentsTyped
<1>2. CASE registerValidator(p)
  <2>1. PaymentsTyped'
    BY <1>2, Zenon DEF VestInv, PaymentsTyped, registerValidator
  <2> QED BY <1>2, <2>1, PaymentKeeps, Zenon DEF registerValidator, transferFrom, vesting
<1>3. CASE \E v \in Amounts : increaseStake(p, v)
  <2> PICK v \in Amounts : increaseStake(p, v)
    BY <1>3, Zenon
  <2>1. PaymentsTyped'
    BY <1>1 DEF VestInv, PaymentsTyped, increaseStake
  <2> QED BY <2>1, PaymentKeeps, Zenon DEF increaseStake, transferFrom, vesting
<1>4. CASE unregister(p)
  <2>1. PaymentsTyped'
    BY <1>1, <1>4, Zenon DEF VestInv, PaymentsTyped, unregister, Retired
  <2> QED BY <1>1, <1>4, <2>1, PaymentKeeps, Zenon DEF unregister, vesting
<1>5. CASE \E v \in Amounts : slash(p, v)
  <2> PICK v \in Amounts : slash(p, v)
    BY <1>5, Zenon
  <2>1. v \in Nat /\ v <= validators[p].stake /\ UNCHANGED <<token, authority, requests, vesting, now>>
    BY Zenon DEF slash
  <2> DEFINE rest == validators[p].stake - v
             active == rest >= MinStake
  <2>2. rest \in Nat /\ active \in BOOLEAN
    <3>1. rest \in Nat
      BY <1>1, <2>1
    <3>2. active \in BOOLEAN
      OBVIOUS
    <3> QED BY <3>1, <3>2, Zenon
  <2>3. validators' = [validators EXCEPT ![p] =
                        [owner |-> validators[p].owner, stake |-> rest, isActive |-> active]]
    BY Zenon DEF slash
  <2> HIDE DEF rest, active
  <2>4. [owner |-> validators[p].owner, stake |-> rest, isActive |-> active]
            \in [owner : People \cup {Nobody}, stake : Nat, isActive : BOOLEAN]
    BY <1>1, <2>2, Zenon
  <2>5. PaymentsTyped'
    BY <2>1, <2>3, <2>4, Zenon DEF VestInv, PaymentsTyped
  <2> QED BY <2>1, <2>5, Zenon DEF VestInv, token, vesting, vestedAmount
<1> QED BY <1>2, <1>3, <1>4, <1>5, Zenon

(* The bridge is paid by senders and pays recipients or senders.            *)
LEMMA BridgeKeeps ==
    ASSUME VestInv,
           \/ \E p \in People, q \in People \cup {Nobody}, v \in Amounts : initiateBridge(p, q, v)
           \/ \E r \in DOMAIN requests : completeBridge(r) \/ revertBridge(r)
    PROVE  VestInv'
<1> USE Accounts
<1>1. CASE \E p \in People, q \in People \cup {Nobody}, v \in Amounts : initiateBridge(p, q, v)
  <2> PICK p \in People, q \in People \cup {Nobody}, v \in Amounts : initiateBridge(p, q, v)
    BY <1>1, Zenon
  <2>1. PaymentsTyped'
    <3>1. validators' = validators /\ requests' = Put(requests, <<p, q, v, now>>, "open")
      BY Zenon DEF initiateBridge, staking
    <3>2. DOMAIN requests' = DOMAIN requests \cup {<<p, q, v, now>>}
      BY <3>1, Zenon DEF Put
    <3>3. <<p, q, v, now>> \in People \X (People \cup {Nobody}) \X Amounts \X Nat
      BY Zenon DEF VestInv
    <3> QED BY <3>1, <3>2, <3>3, Zenon DEF VestInv, PaymentsTyped
  <2> QED BY <2>1, PaymentKeeps, Zenon DEF initiateBridge, transferFrom, vesting
<1>2. CASE \E r \in DOMAIN requests : completeBridge(r) \/ revertBridge(r)
  <2> PICK r \in DOMAIN requests : completeBridge(r) \/ revertBridge(r)
    BY <1>2, Zenon
  <2>1. r[1] \in People /\ r[2] \in People \cup {Nobody} /\ Amount(r) \in Amounts
    BY Zenon DEF VestInv, PaymentsTyped, Amount
  <2>2. \/ Settle(r, "completed", r[2]) /\ r[2] \in People
        \/ Settle(r, "reverted", r[1]) /\ r[1] \in People
    BY <2>1, Zenon DEF completeBridge, revertBridge, Settle
  <2>3. PaymentsTyped'
    BY <2>2, Zenon DEF VestInv, PaymentsTyped, Settle, staking
  <2>4. ASSUME NEW outcome, NEW payee \in People, Settle(r, outcome, payee) PROVE VestInv'
    BY <2>1, <2>3, <2>4, PaymentKeeps, Zenon DEF Settle, vesting
  <2> QED BY <2>2, <2>4, Zenon
<1> QED BY <1>1, <1>2, Zenon

LEMMA VestCallKeeps ==
    ASSUME VestInv, Call PROVE VestInv'
<1> USE Accounts
<1>1. CASE \E p, q \in People : executeGenesisDistribution(p, q)
  BY <1>1, DistributionKeeps, Zenon
<1>2. CASE \E p \in People, v \in Amounts, q \in Payees : Transfer(p, q, v)
  <2> PICK p \in People, v \in Amounts, q \in Payees : Transfer(p, q, v)
    BY <1>2, Zenon
  <2>1. PaymentsTyped'
    BY Zenon DEF VestInv, PaymentsTyped, Transfer, staking
  <2> QED BY <2>1, PaymentKeeps, Zenon DEF Transfer, vesting
<1>3. CASE \E p \in People, v \in Amounts : distributeTitanReward(p, v)
  <2> PICK p \in People, v \in Amounts : distributeTitanReward(p, v)
    BY <1>3, Zenon
  <2>1. PaymentsTyped'
    BY Zenon DEF VestInv, PaymentsTyped, distributeTitanReward, staking
  <2> QED BY <2>1, PaymentKeeps, Zenon DEF distributeTitanReward, vesting
<1>4. CASE \E p \in People : \/ registerValidator(p) \/ unregister(p)
                             \/ \E v \in Amounts : increaseStake(p, v) \/ slash(p, v)
  BY <1>4, StakingKeeps, Zenon
<1>5. CASE \/ \E p \in People, q \in People \cup {Nobody}, v \in Amounts : initiateBridge(p, q, v)
           \/ \E r \in DOMAIN requests : completeBridge(r) \/ revertBridge(r)
  BY <1>5, BridgeKeeps, Zenon
<1>6. CASE release
  BY <1>6, ReleaseKeeps, Zenon
<1>7. CASE \E p \in People, s \in Spenders, v \in Approvals :
               Approve(p, s, v) \/ increaseAllowance(p, s, v) \/ decreaseAllowance(p, s, v)
  <2>1. UNCHANGED <<balanceOf, distributed, staking, requests, vesting, now>>
    BY <1>7, Zenon DEF Approve, increaseAllowance, decreaseAllowance, Allows
  <2> QED BY <2>1, Zenon DEF VestInv, PaymentsTyped, staking, vesting, vestedAmount
<1>8. CASE \E p \in People : setSlashingAuthority(p) \/ changeBeneficiary(p)
  BY <1>8 DEF VestInv, PaymentsTyped, setSlashingAuthority, changeBeneficiary,
     token, staking, vesting, vestedAmount
<1> QED BY <1>1, <1>2, <1>3, <1>4, <1>5, <1>6, <1>7, <1>8, Zenon DEF Call

(* Time only adds to what has vested.                                       *)
LEMMA VestStepKeeps ==
    ASSUME VestInv, Tick \/ UNCHANGED contractVars PROVE VestInv'
<1>1. CASE Tick
  <2>1. now' = now + 1 /\ vestedAmount <= vestedAmount' /\ vestedAmount \in Nat
    BY <1>1, VestedFacts, Zenon DEF VestInv, Tick
  <2>2. vestedAmount' \in Nat
    <3>1. now' \in Nat
      BY <2>1 DEF VestInv
    <3> QED BY <3>1, ContractsAssumption DEF vestedAmount
  <2> QED BY <1>1, <2>1, <2>2 DEF VestInv, PaymentsTyped, Tick, token, staking, vesting
<1>2. CASE UNCHANGED contractVars
  BY <1>2, Zenon DEF VestInv, PaymentsTyped, contractVars, token, staking, vesting, vestedAmount
<1> QED BY <1>1, <1>2, Zenon

(* With any balances, schedule and number of holders, what has left the     *)
(* vesting contract is at most what vestedAmount grants, whatever is        *)
(* released, transferred and distributed in whatever order.  About          *)
(* FounderVesting.release and PNXToken.transfer.                            *)
THEOREM ReleasedAlwaysWithinVested == ContractsSpec => []ReleasedWithinVested
<1>1. ContractsInit => VestInv
  <2> SUFFICES ASSUME ContractsInit PROVE VestInv
    BY Zenon
  <2>1. balanceOf \in [Holders -> Nat] /\ PaymentsTyped
    BY ContractsAssumption DEF ContractsInit, PaymentsTyped
  <2>2. vestedAmount \in Nat
    BY VestedFacts, Zenon DEF ContractsInit
  <2> QED BY <2>1, <2>2 DEF ContractsInit, VestInv
<1>2. VestInv /\ [ContractsNext]_contractVars => VestInv'
  BY VestCallKeeps, VestStepKeeps, Zenon DEF ContractsNext
<1>3. VestInv => ReleasedWithinVested
  <2> SUFFICES ASSUME VestInv PROVE ReleasedWithinVested
    BY Zenon
  <2>1. balanceOf[Vesting] \in Nat
    BY Accounts, Zenon DEF VestInv
  <2>2. vestedAmount \in Nat /\ FounderAmount \in Nat
    BY Accounts, VestedFacts, Zenon DEF VestInv
  <2> QED BY <2>1, <2>2 DEF VestInv, ReleasedWithinVested
<1> QED BY <1>1, <1>2, <1>3, PTL DEF ContractsSpec

-----------------------------------------------------------------------------
(***************************************************************************)
(* Stakes and open bridge requests are covered by the balances of the      *)
(* contracts that owe them.  A call changes one term of the sum of what is *)
(* owed and moves at least as many tokens the right way; an address that   *)
(* never registered is not active.                                         *)
(***************************************************************************)
BackInv ==
    /\ VestInv /\ StakesBacked /\ BridgeBacked /\ IsFiniteSet(DOMAIN requests)
    /\ \A p \in People : validators[p].owner = Nobody => ~validators[p].isActive

LEMMA OwedTyped ==
    /\ PaymentsTyped => /\ \A p \in People : Stakes[p] \in Nat
                        /\ \A r \in DOMAIN requests : Claims[r] \in Nat
    /\ PaymentsTyped' => /\ \A p \in People : Stakes'[p] \in Nat
                         /\ \A r \in DOMAIN requests' : Claims'[r] \in Nat
<1>1. ASSUME NEW V \in [People -> [owner : People \cup {Nobody}, stake : Nat, isActive : BOOLEAN]]
      PROVE  \A p \in People : (IF V[p].isActive THEN V[p].stake ELSE 0) \in Nat
  BY Zenon
<1>2. ASSUME NEW r \in People \X (People \cup {Nobody}) \X Amounts \X Nat PROVE Amount(r) \in Nat
  BY ContractsAssumption, Zenon DEF Amount
<1> QED BY <1>1, <1>2, Zenon DEF PaymentsTyped, Stakes, Claims

(* The sums before and after, when one validator's record changed.          *)
LEMMA StakeChanges ==
    ASSUME PaymentsTyped, PaymentsTyped', NEW p \in People,
           \A q \in People \ {p} : validators'[q] = validators[q]
    PROVE  /\ SumFunctionOnSet(Stakes, People) \in Nat
           /\ SumFunctionOnSet(Stakes', People)
                = SumFunctionOnSet(Stakes, People) - Stakes[p] + Stakes'[p]
<1>1. \A q \in People : Stakes[q] \in Nat /\ Stakes'[q] \in Nat
  BY OwedTyped, Zenon
<1>2. \A q \in People \ {p} : Stakes[q] = Stakes'[q]
  BY Zenon DEF Stakes
<1>3. IsFiniteSet(People)
  BY ContractsAssumption, Zenon
<1>4. SumFunctionOnSet(Stakes, People) \in Nat
  BY <1>1, <1>3, SumNat, Zenon
<1>5. SumFunctionOnSet(Stakes', People) = SumFunctionOnSet(Stakes, People) - Stakes[p] + Stakes'[p]
  BY <1>1, <1>2, <1>3, SumUpdate
<1> QED BY <1>4, <1>5, Zenon

(* A call that changes no validator and takes nothing from the contract.    *)
LEMMA StakesStay ==
    ASSUME BackInv, VestInv', validators' = validators, balanceOf'[Staking] >= balanceOf[Staking]
    PROVE  StakesBacked'
<1>1. Stakes' = Stakes
  BY Zenon DEF Stakes
<1>2. SumFunctionOnSet(Stakes, People) \in Nat
  BY OwedTyped, ContractsAssumption, SumNat, Zenon DEF BackInv, VestInv
<1>3. balanceOf[Staking] \in Nat /\ balanceOf'[Staking] \in Nat
  BY Accounts, Zenon DEF BackInv, VestInv
<1>4. balanceOf[Staking] >= SumFunctionOnSet(Stakes, People)
  BY Zenon DEF BackInv, StakesBacked
<1>5. balanceOf'[Staking] >= SumFunctionOnSet(Stakes, People)
  BY <1>2, <1>3, <1>4
<1> QED BY <1>1, <1>5, Zenon DEF StakesBacked

LEMMA ClaimsStay ==
    ASSUME BackInv, VestInv', requests' = requests, balanceOf'[Bridge] >= balanceOf[Bridge]
    PROVE  BridgeBacked'
<1>1. Claims' = Claims
  BY Zenon DEF Claims
<1>2. SumFunctionOnSet(Claims, DOMAIN requests) \in Nat
  BY OwedTyped, SumNat, Zenon DEF BackInv, VestInv
<1>3. balanceOf[Bridge] \in Nat /\ balanceOf'[Bridge] \in Nat
  BY Accounts, Zenon DEF BackInv, VestInv
<1>4. balanceOf[Bridge] >= SumFunctionOnSet(Claims, DOMAIN requests)
  BY Zenon DEF BackInv, BridgeBacked
<1>5. balanceOf'[Bridge] >= SumFunctionOnSet(Claims, DOMAIN requests)
  BY <1>2, <1>3, <1>4
<1> QED BY <1>1, <1>5, Zenon DEF BridgeBacked

(* A payment by somebody else takes from neither contract.                  *)
LEMMA PaidByOthers ==
    ASSUME VestInv, NEW from \in Holders, NEW to \in Holders, NEW v \in Nat, CanPay(from, v),
           balanceOf' = Moved(balanceOf, from, to, v)
    PROVE  /\ \A h \in Holders \ {from} : balanceOf'[h] >= balanceOf[h]
           /\ balanceOf'[from] >= balanceOf[from] - v
           /\ to # from => balanceOf'[to] = balanceOf[to] + v
BY MovedFacts DEF VestInv, CanPay

(* The contracts' accounts are different ones.                              *)
LEMMA Payers ==
    /\ People \cap {Staking, Bridge} = {} /\ {Token, Vesting} \cap {Staking, Bridge} = {}
    /\ Staking # Bridge /\ {Token, Staking, Bridge, Vesting} \subseteq Holders
BY ContractsAssumption, Zenon DEF Holders

(* Validators pay in what their records gain, and are paid what they lose.  *)
LEMMA StakingBacked ==
    ASSUME BackInv, VestInv', NEW p \in People,
           \/ registerValidator(p) \/ unregister(p)
           \/ \E v \in Amounts : increaseStake(p, v) \/ slash(p, v)
    PROVE  /\ StakesBacked' /\ balanceOf'[Bridge] >= balanceOf[Bridge]
           /\ \A q \in People : validators'[q].owner = Nobody => ~validators'[q].isActive
<1> USE Accounts, Payers
<1> DEFINE Sum == SumFunctionOnSet(Stakes, People)
<1>1. /\ PaymentsTyped /\ PaymentsTyped' /\ VestInv
      /\ balanceOf \in [Holders -> Nat] /\ balanceOf' \in [Holders -> Nat]
      /\ balanceOf[Staking] >= Sum
  BY Zenon DEF BackInv, VestInv, StakesBacked
<1>2. validators[p] \in [owner : People \cup {Nobody}, stake : Nat, isActive : BOOLEAN]
  BY <1>1, Zenon DEF PaymentsTyped
<1>3. \A q \in People \ {p} : validators'[q] = validators[q]
  BY <1>1, Zenon DEF PaymentsTyped, registerValidator, unregister, increaseStake, slash
<1>4. Sum \in Nat /\ SumFunctionOnSet(Stakes', People) = Sum - Stakes[p] + Stakes'[p]
  BY <1>1, <1>3, StakeChanges, Zenon
<1>5. Stakes[p] \in Nat /\ Stakes'[p] \in Nat
  BY <1>1, OwedTyped, Zenon
<1> HIDE DEF Sum
<1>6. ASSUME NEW paid \in Int, Stakes'[p] - Stakes[p] <= paid,
             balanceOf'[Staking] >= balanceOf[Staking] + paid
      PROVE  StakesBacked'
  <2>1. balanceOf'[Staking] \in Nat /\ balanceOf[Staking] \in Nat
    BY <1>1, Zenon
  <2>2. balanceOf'[Staking] >= SumFunctionOnSet(Stakes', People)
    BY <1>1, <1>4, <1>5, <1>6, <2>1
  <2> QED BY <2>2, Zenon DEF StakesBacked
<1>7. ASSUME validators'[p].owner # Nobody \/ ~validators'[p].isActive
      PROVE  \A q \in People : validators'[q].owner = Nobody => ~validators'[q].isActive
  BY <1>3, <1>7, Zenon DEF BackInv
<1>8. CASE registerValidator(p)
  <2>1. /\ validators[p].owner = Nobody
        /\ validators' = [validators EXCEPT ![p] = [owner |-> p, stake |-> MinStake, isActive |-> TRUE]]
        /\ CanPay(p, MinStake) /\ balanceOf' = Moved(balanceOf, p, Staking, MinStake)
    BY <1>8, Zenon DEF registerValidator, transferFrom
  <2>2. ~validators[p].isActive
    BY <2>1, Zenon DEF BackInv
  <2>3. validators'[p] = [owner |-> p, stake |-> MinStake, isActive |-> TRUE]
    BY <1>1, <2>1, Zenon DEF PaymentsTyped
  <2>4. Stakes[p] = 0 /\ Stakes'[p] = MinStake
    BY <2>2, <2>3 DEF Stakes
  <2>5. /\ balanceOf'[Staking] = balanceOf[Staking] + MinStake
        /\ balanceOf'[Bridge] >= balanceOf[Bridge]
    BY <1>1, <2>1, PaidByOthers
  <2>6. StakesBacked'
    BY <1>1, <1>6, <2>4, <2>5
  <2> QED BY <1>7, <2>3, <2>5, <2>6
<1>9. CASE \E v \in Amounts : increaseStake(p, v)
  <2> PICK v \in Amounts : increaseStake(p, v)
    BY <1>9, Zenon
  <2>1. /\ validators[p].isActive /\ validators' = [validators EXCEPT ![p].stake = @ + v]
        /\ CanPay(p, v) /\ balanceOf' = Moved(balanceOf, p, Staking, v)
    BY Zenon DEF increaseStake, transferFrom
  <2>2. /\ validators'[p].owner = validators[p].owner /\ validators'[p].stake = validators[p].stake + v
        /\ validators'[p].isActive = validators[p].isActive
    BY <1>1, <1>2, <2>1, Zenon DEF PaymentsTyped
  <2>3. Stakes[p] = validators[p].stake /\ Stakes'[p] = validators[p].stake + v
    BY <2>1, <2>2, Zenon DEF Stakes
  <2>4. balanceOf'[Staking] = balanceOf[Staking] + v /\ balanceOf'[Bridge] >= balanceOf[Bridge]
    BY <1>1, <2>1, PaidByOthers, Zenon
  <2>5. StakesBacked'
    BY <1>1, <1>2, <1>6, <2>3, <2>4
  <2>6. validators'[p].owner # Nobody \/ ~validators'[p].isActive
    BY <2>2, Zenon DEF BackInv
  <2> QED BY <1>7, <2>4, <2>5, <2>6, Zenon
<1>10. CASE unregister(p)
  <2>1. /\ validators[p].isActive /\ validators' = [validators EXCEPT ![p].isActive = FALSE]
        /\ CanPay(Staking, validators[p].stake)
        /\ balanceOf' = Moved(balanceOf, Staking, p, validators[p].stake)
    BY <1>1, <1>10, Zenon DEF unregister, Retired, PaymentsTyped
  <2>2. ~validators'[p].isActive
    BY <1>1, <1>2, <2>1, Zenon DEF PaymentsTyped
  <2>3. Stakes[p] = validators[p].stake /\ Stakes'[p] = 0 /\ validators[p].stake \in Nat
    BY <1>2, <2>1, <2>2, Zenon DEF Stakes
  <2>4. /\ balanceOf'[Staking] >= balanceOf[Staking] - validators[p].stake
        /\ balanceOf'[Bridge] >= balanceOf[Bridge]
    BY <1>1, <2>1, <2>3, PaidByOthers, Zenon
  <2>5. StakesBacked'
    <3> DEFINE paid == 0 - validators[p].stake
    <3>1. paid \in Int /\ Stakes'[p] - Stakes[p] <= paid
          /\ balanceOf'[Staking] >= balanceOf[Staking] + paid
      BY <1>1, <2>3, <2>4
    <3> HIDE DEF paid
    <3> QED BY <1>6, <3>1, Zenon
  <2> QED BY <1>7, <2>2, <2>4, <2>5, Zenon
<1>11. CASE \E v \in Amounts : slash(p, v)
  <2> PICK v \in Amounts : slash(p, v)
    BY <1>11, Zenon
  <2> DEFINE rest == validators[p].stake - v
             active == rest >= MinStake
  <2>1. /\ validators[p].isActive /\ v <= validators[p].stake /\ UNCHANGED balanceOf
        /\ validators' = [validators EXCEPT ![p] =
                            [owner |-> validators[p].owner, stake |-> rest, isActive |-> active]]
    BY Zenon DEF slash, token
  <2>2. rest \in Nat /\ rest <= validators[p].stake
    BY <1>2, <2>1
  <2>3. active \in BOOLEAN
    OBVIOUS
  <2> HIDE DEF rest, active
  <2>4. validators'[p] = [owner |-> validators[p].owner, stake |-> rest, isActive |-> active]
    BY <1>1, <2>1, Zenon DEF PaymentsTyped
  <2>5. Stakes[p] = validators[p].stake /\ Stakes'[p] \in {rest, 0}
    BY <2>1, <2>4 DEF Stakes
  <2>6. StakesBacked'
    <3>1. Stakes'[p] - Stakes[p] <= 0
      BY <1>2, <2>2, <2>5
    <3>2. balanceOf'[Staking] >= balanceOf[Staking] + 0
      BY <1>1, <2>1
    <3> QED BY <1>6, <3>1, <3>2
  <2>7. validators'[p].owner # Nobody \/ ~validators'[p].isActive
    BY <2>1, <2>4 DEF BackInv
  <2>8. balanceOf'[Bridge] >= balanceOf[Bridge]
    BY <1>1, <2>1
  <2> QED BY <1>7, <2>6, <2>7, <2>8, Zenon
<1> QED BY <1>8, <1>9, <1>10, <1>11, Zenon

(* A new request is paid in by its sender; one that takes the place of an   *)
(* earlier request with the same name leaves its claim counted once.        *)
LEMMA InitiateBacked ==
    ASSUME BackInv, VestInv', NEW p \in People, NEW q \in People \cup {Nobody}, NEW v \in Amounts,
           initiateBridge(p, q, v)
    PROVE  BridgeBacked' /\ IsFiniteSet(DOMAIN requests') /\ balanceOf'[Staking] >= balanceOf[Staking]
<1> USE Accounts, Payers
<1> DEFINE r == <<p, q, v, now>>
           D == DOMAIN requests
           Sum == SumFunctionOnSet(Claims, D)
<1>1. /\ PaymentsTyped /\ PaymentsTyped' /\ VestInv /\ IsFiniteSet(D)
      /\ balanceOf[Bridge] \in Nat /\ balanceOf[Bridge] >= Sum
  BY Zenon DEF BackInv, VestInv, BridgeBacked
<1>2. /\ CanPay(p, v) /\ balanceOf' = Moved(balanceOf, p, Bridge, v)
      /\ requests' = Put(requests, r, "open")
  BY ZenonT(60) DEF initiateBridge, transferFrom
<1>3. balanceOf'[Bridge] = balanceOf[Bridge] + v /\ balanceOf'[Staking] >= balanceOf[Staking]
  BY <1>1, <1>2, PaidByOthers
<1>4. Amount(r) = v /\ v \in Nat
  BY Zenon DEF Amount
<1> HIDE DEF r
<1>5. DOMAIN requests' = D \cup {r} /\ requests'[r] = "open" /\ \A x \in D \ {r} : requests'[x] = requests[x]
  BY <1>2, Zenon DEF Put
<1>6. Claims'[r] = v /\ \A x \in D \ {r} : Claims'[x] = Claims[x]
  BY <1>4, <1>5, Zenon DEF Claims
<1>7. /\ \A x \in D : Claims[x] \in Nat
      /\ \A x \in D \cup {r} : Claims'[x] \in Nat
  BY <1>1, <1>5, OwedTyped, Zenon
<1>8. Sum \in Nat
  BY <1>1, <1>7, SumNat, Zenon
<1>9. SumFunctionOnSet(Claims', D \cup {r}) <= Sum + v
  <2>1. CASE r \in D
    <3>1. SumFunctionOnSet(Claims', D) = Sum - Claims[r] + Claims'[r]
      <4>1. \A x \in D : Claims[x] \in Int /\ Claims'[x] \in Int
        BY <1>7
      <4>2. \A x \in D \ {r} : Claims[x] = Claims'[x]
        BY <1>6, Zenon
      <4> HIDE DEF D
      <4> QED BY <1>1, <2>1, <4>1, <4>2, SumUpdate, SMTT(30)
    <3>2. D \cup {r} = D /\ Claims[r] \in Nat
      BY <1>7, <2>1, Zenon
    <3> QED BY <1>4, <1>6, <1>8, <3>1, <3>2
  <2>2. CASE r \notin D
    <3>1. SumFunctionOnSet(Claims', D \cup {r}) = Sum + Claims'[r]
      <4>1. \A x \in D : Claims[x] \in Int /\ Claims[x] = Claims'[x]
        BY <1>6, <1>7, <2>2
      <4>2. Claims'[r] \in Int
        BY <1>7
      <4>3. IsFiniteSet(D) /\ r \notin D
        BY <1>1, <2>2, Zenon
      <4> HIDE DEF D
      <4> QED BY <4>1, <4>2, <4>3, SumInsert
    <3> QED BY <1>4, <1>6, <1>8, <3>1
  <2> QED BY <2>1, <2>2, Zenon
<1>10. IsFiniteSet(D \cup {r})
  BY <1>1, AddFinite, Zenon
<1>11. SumFunctionOnSet(Claims', D \cup {r}) \in Nat
  BY <1>7, <1>10, SumNat, Zenon
<1> HIDE DEF Sum, D
<1>12. balanceOf'[Bridge] >= SumFunctionOnSet(Claims', D \cup {r})
  BY <1>1, <1>3, <1>4, <1>8, <1>9, <1>11
<1> QED BY <1>3, <1>5, <1>10, <1>12, Zenon DEF BridgeBacked

(* A request is paid out once, and closed.                                  *)
LEMMA SettleBacked ==
    ASSUME BackInv, VestInv', NEW r \in DOMAIN requests, completeBridge(r) \/ revertBridge(r)
    PROVE  BridgeBacked' /\ IsFiniteSet(DOMAIN requests') /\ balanceOf'[Staking] >= balanceOf[Staking]
<1> USE Accounts, Payers
<1> DEFINE D == DOMAIN requests
           Sum == SumFunctionOnSet(Claims, D)
<1>1. /\ PaymentsTyped /\ PaymentsTyped' /\ VestInv /\ IsFiniteSet(D)
      /\ balanceOf[Bridge] \in Nat /\ balanceOf'[Bridge] \in Nat /\ balanceOf[Bridge] >= Sum
  BY Zenon DEF BackInv, VestInv, BridgeBacked
<1>2. r[1] \in People /\ r[2] \in People \cup {Nobody} /\ Amount(r) \in Nat
  BY <1>1, Zenon DEF PaymentsTyped, Amount
<1>3. PICK payee \in People, outcome \in {"completed", "reverted"} : Settle(r, outcome, payee)
  BY <1>2, Zenon DEF completeBridge, revertBridge, Settle
<1>4. requests[r] = "open"
  BY Zenon DEF completeBridge, revertBridge, IsOpen
<1>5. /\ CanPay(Bridge, Amount(r)) /\ balanceOf' = Moved(balanceOf, Bridge, payee, Amount(r))
      /\ requests' = [requests EXCEPT ![r] = outcome]
  BY <1>3, Zenon DEF Settle
<1>6. /\ balanceOf'[Bridge] >= balanceOf[Bridge] - Amount(r)
      /\ balanceOf'[Staking] >= balanceOf[Staking]
  BY <1>1, <1>2, <1>5, PaidByOthers, Zenon
<1>7. DOMAIN requests' = D /\ requests'[r] # "open" /\ \A x \in D \ {r} : requests'[x] = requests[x]
  BY <1>5, Zenon
<1>8. Claims[r] = Amount(r) /\ Claims'[r] = 0 /\ \A x \in D \ {r} : Claims'[x] = Claims[x]
  BY <1>4, <1>7, Zenon DEF Claims
<1>9. \A x \in D : Claims[x] \in Nat /\ Claims'[x] \in Nat
  BY <1>1, <1>7, OwedTyped, Zenon
<1>10. Sum \in Nat
  BY <1>1, <1>9, SumNat, Zenon
<1>11. SumFunctionOnSet(Claims', D) = Sum - Claims[r] + Claims'[r]
  <2>1. \A x \in D : Claims[x] \in Int /\ Claims'[x] \in Int
    BY <1>9
  <2>2. r \in D /\ \A x \in D \ {r} : Claims[x] = Claims'[x]
    BY <1>8, Zenon
  <2> HIDE DEF D
  <2> QED BY <1>1, <2>1, <2>2, SumUpdate
<1> HIDE DEF Sum, D
<1>12. balanceOf'[Bridge] >= SumFunctionOnSet(Claims', D)
  BY <1>1, <1>2, <1>6, <1>8, <1>10, <1>11
<1> QED BY <1>1, <1>6, <1>7, <1>12, Zenon DEF BridgeBacked

(* The genesis distribution pays from the token's own account.              *)
LEMMA DistributionTakes ==
    ASSUME VestInv, NEW p \in People, NEW q \in People, executeGenesisDistribution(p, q)
    PROVE  balanceOf'[Staking] >= balanceOf[Staking] /\ balanceOf'[Bridge] >= balanceOf[Bridge]
<1> USE Accounts, Payers
<1> DEFINE b1 == Moved(balanceOf, Token, Vesting, FounderAmount)
           b2 == Moved(b1, Token, p, VaultAmount)
           b3 == Moved(b2, Token, q, VaultAmount)
<1>1. /\ balanceOf \in [Holders -> Nat] /\ balanceOf' = b3
      /\ balanceOf[Token] >= FounderAmount + 2 * VaultAmount
  BY Zenon DEF VestInv, executeGenesisDistribution, CanPay
<1>2. /\ b1 \in [Holders -> Nat] /\ b1[Token] >= 2 * VaultAmount
      /\ \A h \in Holders \ {Token} : b1[h] >= balanceOf[h]
  <2>1. balanceOf[Token] \in Nat /\ balanceOf[Token] >= FounderAmount
    BY <1>1
  <2>2. /\ b1 \in [Holders -> Nat] /\ b1[Token] >= balanceOf[Token] - FounderAmount
        /\ \A h \in Holders \ {Token} : b1[h] >= balanceOf[h]
    BY <1>1, <2>1, MovedFacts, Zenon
  <2> HIDE DEF b1
  <2> QED BY <1>1, <2>1, <2>2
<1> HIDE DEF b1
<1>3. b1[Token] \in Nat /\ VaultAmount \in Nat /\ b1[Token] >= VaultAmount
  BY <1>2
<1>4. /\ b2 \in [Holders -> Nat] /\ b2[Token] >= b1[Token] - VaultAmount
      /\ \A h \in Holders \ {Token} : b2[h] >= b1[h]
  BY <1>2, <1>3, MovedFacts, Zenon
<1> HIDE DEF b2
<1>5. b2[Token] >= VaultAmount
  BY <1>2, <1>3, <1>4
<1>6. b3 \in [Holders -> Nat] /\ \A h \in Holders \ {Token} : b3[h] >= b2[h]
  BY <1>3, <1>4, <1>5, MovedFacts, Zenon
<1> HIDE DEF b3
<1>7. ASSUME NEW h \in Holders \ {Token} PROVE b3[h] >= balanceOf[h]
  <2>1. b3[h] >= b2[h] /\ b2[h] >= b1[h] /\ b1[h] >= balanceOf[h]
    BY <1>2, <1>4, <1>6, Zenon
  <2>2. b3[h] \in Nat /\ b2[h] \in Nat /\ b1[h] \in Nat /\ balanceOf[h] \in Nat
    BY <1>1, <1>2, <1>4, <1>6, Zenon
  <2> QED BY <2>1, <2>2
<1>8. Staking \in Holders \ {Token} /\ Bridge \in Holders \ {Token}
  BY ContractsAssumption, Zenon
<1> QED BY <1>1, <1>7, <1>8, Zenon

(* A call that leaves the books of both contracts, and takes from neither.  *)
LEMMA BooksStay ==
    ASSUME BackInv, VestInv', validators' = validators, requests' = requests,
           balanceOf'[Staking] >= balanceOf[Staking], balanceOf'[Bridge] >= balanceOf[Bridge]
    PROVE  BackInv'
BY StakesStay, ClaimsStay, Zenon DEF BackInv

LEMMA BackCallKeeps ==
    ASSUME BackInv, Call PROVE BackInv'
<1> USE Accounts, Payers
<1>1. VestInv /\ VestInv' /\ balanceOf[Staking] \in Nat /\ balanceOf[Bridge] \in Nat
  BY VestCallKeeps, Zenon DEF BackInv, VestInv
<1>2. CASE \E p, q \in People : executeGenesisDistribution(p, q)
  BY <1>1, <1>2, DistributionTakes, BooksStay, Zenon DEF executeGenesisDistribution, staking
<1>3. CASE \E p \in People, v \in Amounts, q \in Payees : Transfer(p, q, v)
  BY <1>1, <1>3, PaidByOthers, BooksStay, Zenon DEF Transfer, staking
<1>4. CASE \E p \in People, v \in Amounts : distributeTitanReward(p, v)
  BY <1>1, <1>4, PaidByOthers, BooksStay, ZenonT(60) DEF distributeTitanReward, staking
<1>5. CASE \E p \in People : \/ registerValidator(p) \/ unregister(p)
                             \/ \E v \in Amounts : increaseStake(p, v) \/ slash(p, v)
  <2>1. requests' = requests
    BY <1>5, Zenon DEF registerValidator, unregister, increaseStake, slash
  <2>2. /\ StakesBacked' /\ balanceOf'[Bridge] >= balanceOf[Bridge]
        /\ \A q \in People : validators'[q].owner = Nobody => ~validators'[q].isActive
    BY <1>1, <1>5, StakingBacked, Zenon
  <2>3. BridgeBacked'
    BY <1>1, <2>1, <2>2, ClaimsStay, Zenon
  <2> QED BY <1>1, <2>1, <2>2, <2>3, Zenon DEF BackInv
<1>6. CASE \/ \E p \in People, q \in People \cup {Nobody}, v \in Amounts : initiateBridge(p, q, v)
           \/ \E r \in DOMAIN requests : completeBridge(r) \/ revertBridge(r)
  <2>1. validators' = validators
    BY <1>6, Zenon DEF initiateBridge, completeBridge, revertBridge, Settle, staking
  <2>2. BridgeBacked' /\ IsFiniteSet(DOMAIN requests') /\ balanceOf'[Staking] >= balanceOf[Staking]
    BY <1>1, <1>6, InitiateBacked, SettleBacked, Zenon
  <2>3. StakesBacked'
    BY <1>1, <2>1, <2>2, StakesStay, Zenon
  <2> QED BY <1>1, <2>1, <2>2, <2>3, Zenon DEF BackInv
<1>7. CASE release
  <2> DEFINE amount == vestedAmount - released
  <2>1. /\ amount > 0 /\ CanPay(Vesting, amount) /\ beneficiary \in Holders
        /\ balanceOf' = Moved(balanceOf, Vesting, beneficiary, amount)
    BY <1>1, <1>7, Zenon DEF release, VestInv
  <2>2. amount \in Nat
    BY <1>1, <2>1, VestedFacts DEF VestInv
  <2> HIDE DEF amount
  <2>3. balanceOf'[Staking] >= balanceOf[Staking] /\ balanceOf'[Bridge] >= balanceOf[Bridge]
    BY <1>1, <2>1, <2>2, PaidByOthers, Zenon
  <2> QED BY <1>1, <1>7, <2>3, BooksStay, Zenon DEF release, staking
<1>8. CASE \/ \E p \in People, s \in Spenders, v \in Approvals :
                Approve(p, s, v) \/ increaseAllowance(p, s, v) \/ decreaseAllowance(p, s, v)
           \/ \E p \in People : setSlashingAuthority(p) \/ changeBeneficiary(p)
  <2>1. UNCHANGED <<balanceOf, validators, requests>>
    BY <1>8, Zenon DEF Approve, increaseAllowance, decreaseAllowance, Allows, setSlashingAuthority,
       changeBeneficiary, token, staking
  <2> QED BY <1>1, <2>1, BooksStay
<1> QED BY <1>2, <1>3, <1>4, <1>5, <1>6, <1>7, <1>8, Zenon DEF Call

LEMMA BackInvariant == ContractsSpec => []BackInv
<1>1. ContractsInit => BackInv
  <2> SUFFICES ASSUME ContractsInit PROVE BackInv
    BY Zenon
  <2>1. VestInv
    <3>1. balanceOf \in [Holders -> Nat] /\ PaymentsTyped
      BY ContractsAssumption DEF ContractsInit, PaymentsTyped
    <3>2. vestedAmount \in Nat
      BY VestedFacts, Zenon DEF ContractsInit
    <3> QED BY <3>1, <3>2 DEF ContractsInit, VestInv
  <2>2. balanceOf[Staking] = 0 /\ balanceOf[Bridge] = 0
    BY Payers, ContractsAssumption, Zenon DEF ContractsInit
  <2>3. \A p \in People : Stakes[p] = 0
    BY Zenon DEF ContractsInit, Stakes
  <2>4. SumFunctionOnSet(Stakes, People) = 0
    BY <2>3, ContractsAssumption, SumZero, Zenon
  <2>5. DOMAIN requests = {} /\ IsFiniteSet({})
    BY ContractsAssumption, SubsetFinite DEF ContractsInit
  <2>6. SumFunctionOnSet(Claims, {}) = 0
    BY <2>5, SumZero, Zenon
  <2>7. \A p \in People : ~validators[p].isActive
    BY Zenon DEF ContractsInit
  <2> QED BY <2>1, <2>2, <2>4, <2>5, <2>6, <2>7, SMTT(30) DEF BackInv, StakesBacked, BridgeBacked
<1>2. BackInv /\ [ContractsNext]_contractVars => BackInv'
  <2> SUFFICES ASSUME BackInv, [ContractsNext]_contractVars PROVE BackInv'
    BY Zenon
  <2>1. CASE Call
    BY <2>1, BackCallKeeps, Zenon
  <2>2. CASE Tick \/ UNCHANGED contractVars
    <3>1. VestInv'
      BY <2>2, VestStepKeeps, Zenon DEF BackInv
    <3>2. UNCHANGED <<balanceOf, validators, requests>>
      BY <2>2, Zenon DEF Tick, contractVars, token, staking
    <3>3. balanceOf[Staking] \in Nat /\ balanceOf[Bridge] \in Nat
      BY Accounts, Zenon DEF BackInv, VestInv
    <3> QED BY <3>1, <3>2, <3>3, BooksStay
  <2> QED BY <2>1, <2>2, Zenon DEF ContractsNext
<1> QED BY <1>1, <1>2, PTL DEF ContractsSpec

(* With any number of holders and any amounts, the staking contract can     *)
(* give every active validator its stake back, all at once.  About          *)
(* TitanStaking's registerValidator, increaseStake, unregister and slash.   *)
THEOREM StakesAlwaysBacked == ContractsSpec => []StakesBacked
<1>1. BackInv => StakesBacked
  BY Zenon DEF BackInv
<1> QED BY <1>1, BackInvariant, PTL

(* With any number of holders, requests and amounts, the bridge can settle  *)
(* every open request, overwritten ones included.  About BridgeVault's      *)
(* initiateBridge, completeBridge and revertBridge.                         *)
THEOREM BridgeAlwaysBacked == ContractsSpec => []BridgeBacked
<1>1. BackInv => BridgeBacked
  BY Zenon DEF BackInv
<1> QED BY <1>1, BackInvariant, PTL

=============================================================================
