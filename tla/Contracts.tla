----------------------------- MODULE Contracts -----------------------------
(***************************************************************************)
(* The Solidity contracts, composed over the token they share: PNXToken,   *)
(* TitanStaking, BridgeVault and FounderVesting.  One action is one        *)
(* transaction; a call whose `require` fails changes nothing.  Amounts are *)
(* in small units; block.timestamp is the clock `now`.                     *)
(***************************************************************************)
EXTENDS Integers, FiniteSets, Functions, Maps

CONSTANTS People,        \* externally owned accounts
          Token, Staking, Bridge, Vesting,   \* the contracts' own accounts
          Nobody,        \* address(0)
          Supply,        \* PNXToken.totalSupply
          FounderAmount, VaultAmount,        \* the genesis distribution
          MinStake,      \* TitanStaking.MIN_STAKE
          Timeout,       \* BridgeVault.TIMEOUT
          Cliff, Duration,                   \* FounderVesting
          Payees,        \* holders a plain transfer goes to
          Amounts,       \* amounts callers move, stake, slash or bridge
          Approvals,     \* amounts they approve
          MaxTime,       \* bound: the clock
          MaxCalls       \* bound: transactions in a behaviour

Holders == People \cup {Token, Staking, Bridge, Vesting}
Spenders == {Staking, Bridge}

ASSUME ContractsAssumption ==
    /\ Token \notin {Staking, Bridge, Vesting, Nobody}
    /\ Staking \notin {Bridge, Vesting, Nobody}
    /\ Bridge \notin {Vesting, Nobody} /\ Vesting # Nobody
    /\ People \cap {Token, Staking, Bridge, Vesting, Nobody} = {} /\ IsFiniteSet(People)
    /\ Payees \subseteq Holders
    /\ Amounts \subseteq Nat \ {0} /\ Approvals \subseteq Nat
    /\ {Supply, FounderAmount, VaultAmount} \subseteq Nat
    /\ FounderAmount + 2 * VaultAmount <= Supply
    /\ MinStake \in Nat \ {0} /\ Timeout \in Nat
    /\ Cliff \in Nat /\ Duration \in Nat \ {0} /\ MaxTime \in Nat /\ MaxCalls \in Nat

VARIABLES balanceOf, allowance, distributed, rewards,   \* PNXToken
          validators, authority,                                \* TitanStaking
          requests,                                             \* BridgeVault
          released, beneficiary,                                \* FounderVesting
          now, calls

token == <<balanceOf, allowance, distributed, rewards>>
staking == <<validators, authority>>
vesting == <<released, beneficiary>>
contractVars == <<token, staking, requests, vesting, now, calls>>

(* keccak256(sender, recipient, amount, timestamp) names a bridge request.  *)
RequestIds == People \X (People \cup {Nobody}) \X Amounts \X (0 .. MaxTime)

ContractsTypeOK ==
    /\ balanceOf \in [Holders -> 0 .. Supply]
    /\ allowance \in [People \X Spenders -> Nat]
    /\ distributed \in BOOLEAN /\ rewards \in 0 .. MaxCalls * Supply
    /\ validators \in [People -> [owner : People \cup {Nobody}, stake : 0 .. Supply,
                                  isActive : BOOLEAN]]
    /\ authority \in People
    /\ DOMAIN requests \subseteq RequestIds
    /\ \A r \in DOMAIN requests : requests[r] \in {"open", "completed", "reverted"}
    /\ released \in 0 .. FounderAmount /\ beneficiary \in People
    /\ now \in 0 .. MaxTime /\ calls \in 0 .. MaxCalls

ContractsInit ==
    /\ balanceOf = [h \in Holders |-> IF h = Token THEN Supply ELSE 0]
    /\ allowance = [p \in People \X Spenders |-> 0]
    /\ distributed = FALSE /\ rewards = 0
    /\ validators = [p \in People |-> [owner |-> Nobody, stake |-> 0, isActive |-> FALSE]]
    /\ authority \in People
    /\ requests = <<>>
    /\ released = 0 /\ beneficiary \in People
    /\ now = 0 /\ calls = 0
-----------------------------------------------------------------------------
(* PNXToken: what transfer leaves of the balances, and when it succeeds.    *)
CanPay(from, v) == balanceOf[from] >= v
Moved(b, from, to, v) == [[b EXCEPT ![from] = @ - v] EXCEPT ![to] = @ + v]

Transfer(from, to, v) ==
    /\ CanPay(from, v)
    /\ balanceOf' = Moved(balanceOf, from, to, v)
    /\ UNCHANGED <<allowance, distributed, rewards, staking, requests, vesting, now>>

(* transferFrom, called by a contract that the holder approved.             *)
transferFrom(from, spender, v) ==
    /\ CanPay(from, v)
    /\ allowance[<<from, spender>>] >= v
    /\ balanceOf' = Moved(balanceOf, from, spender, v)
    /\ allowance' = [allowance EXCEPT ![<<from, spender>>] = @ - v]
    /\ UNCHANGED <<distributed, rewards>>

Allows(p, s, v) ==
    /\ allowance' = [allowance EXCEPT ![<<p, s>>] = v]
    /\ UNCHANGED <<balanceOf, distributed, rewards, staking, requests, vesting, now>>

Approve(p, s, v) == Allows(p, s, v)
increaseAllowance(p, s, v) == Allows(p, s, allowance[<<p, s>>] + v)
decreaseAllowance(p, s, v) ==
    /\ allowance[<<p, s>>] >= v
    /\ Allows(p, s, allowance[<<p, s>>] - v)

executeGenesisDistribution(sovereign, ecosystem) ==
    /\ ~distributed
    /\ CanPay(Token, FounderAmount + 2 * VaultAmount)
    /\ distributed' = TRUE
    /\ balanceOf' = Moved(Moved(Moved(balanceOf, Token, Vesting, FounderAmount),
                                Token, sovereign, VaultAmount),
                          Token, ecosystem, VaultAmount)
    /\ UNCHANGED <<allowance, rewards, staking, requests, vesting, now>>

distributeTitanReward(titan, v) ==
    /\ CanPay(Token, v)
    /\ balanceOf' = Moved(balanceOf, Token, titan, v)
    /\ rewards' = rewards + v
    /\ UNCHANGED <<allowance, distributed, staking, requests, vesting, now>>
-----------------------------------------------------------------------------
(* TitanStaking                                                             *)
registerValidator(p) ==
    /\ validators[p].owner = Nobody
    /\ transferFrom(p, Staking, MinStake)
    /\ validators' = [validators EXCEPT ![p] =
                        [owner |-> p, stake |-> MinStake, isActive |-> TRUE]]
    /\ UNCHANGED <<authority, requests, vesting, now>>

increaseStake(p, v) ==
    /\ validators[p].isActive
    /\ transferFrom(p, Staking, v)
    /\ validators' = [validators EXCEPT ![p].stake = @ + v]
    /\ UNCHANGED <<authority, requests, vesting, now>>

(* unregister clears isActive and pays the stake back; the stake field and  *)
(* the owner stay.                                                          *)
RetiredMutant(v) == v
Retired(v) == [v EXCEPT !.isActive = FALSE]

unregister(p) ==
    /\ validators[p].isActive
    /\ CanPay(Staking, validators[p].stake)
    /\ validators' = [validators EXCEPT ![p] = Retired(@)]
    /\ balanceOf' = Moved(balanceOf, Staking, p, validators[p].stake)
    /\ UNCHANGED <<allowance, distributed, rewards, authority, requests, vesting, now>>

(* slash, by the authority: the amount stays in the contract.               *)
slash(p, v) ==
    /\ validators[p].isActive /\ v <= validators[p].stake
    /\ validators' = [validators EXCEPT ![p] =
                        [owner |-> @.owner, stake |-> @.stake - v,
                         isActive |-> @.stake - v >= MinStake]]
    /\ UNCHANGED <<token, authority, requests, vesting, now>>

setSlashingAuthority(p) ==
    /\ authority' = p   \* called by the authority
    /\ UNCHANGED <<token, validators, requests, vesting, now>>
-----------------------------------------------------------------------------
(* BridgeVault.  A request with the same sender, recipient, amount and      *)
(* timestamp as an earlier one overwrites it.                               *)
Amount(r) == r[3]
Expiry(r) == r[4] + Timeout

initiateBridge(sender, recipient, v) ==
    /\ transferFrom(sender, Bridge, v)
    /\ LET r == <<sender, recipient, v, now>>
       IN  requests' = Put(requests, r, "open")
    /\ UNCHANGED <<staking, vesting, now>>

(* Settling pays through transfer, which refuses address(0).                *)
Settle(r, outcome, payee) ==
    /\ payee # Nobody
    /\ CanPay(Bridge, Amount(r))
    /\ requests' = [requests EXCEPT ![r] = outcome]
    /\ balanceOf' = Moved(balanceOf, Bridge, payee, Amount(r))
    /\ UNCHANGED <<allowance, distributed, rewards, staking, vesting, now>>

IsOpenMutant(r) == requests[r] # "reverted"
IsOpen(r) == requests[r] = "open"

completeBridge(r) ==
    /\ IsOpen(r) /\ now <= Expiry(r)
    /\ Settle(r, "completed", r[2])

revertBridge(r) ==
    /\ IsOpen(r) /\ now > Expiry(r)
    /\ Settle(r, "reverted", r[1])
-----------------------------------------------------------------------------
(* FounderVesting, deployed at time 0.                                      *)
vestedAmount ==
    IF now < Cliff THEN 0
    ELSE IF now >= Duration THEN FounderAmount
    ELSE (FounderAmount * now) \div Duration

AfterRelease(amount) == released + amount

release ==
    LET amount == vestedAmount - released
    IN  /\ amount > 0
        /\ CanPay(Vesting, amount)
        /\ released' = AfterRelease(amount)
        /\ balanceOf' = Moved(balanceOf, Vesting, beneficiary, amount)
        /\ UNCHANGED <<allowance, distributed, rewards, staking, requests,
                       beneficiary, now>>

changeBeneficiary(p) ==
    /\ beneficiary' = p
    /\ UNCHANGED <<token, staking, requests, released, now>>

Tick == /\ now < MaxTime /\ now' = now + 1
        /\ UNCHANGED <<token, staking, requests, vesting>>

Call ==
    \/ \E p, q \in People : executeGenesisDistribution(p, q)
    \/ \E p \in People, v \in Amounts :
         \/ \E q \in Payees : Transfer(p, q, v)
         \/ \E q \in People \cup {Nobody} : initiateBridge(p, q, v)
         \/ distributeTitanReward(p, v) \/ increaseStake(p, v) \/ slash(p, v)
    \/ \E p \in People, s \in Spenders, v \in Approvals :
         Approve(p, s, v) \/ increaseAllowance(p, s, v) \/ decreaseAllowance(p, s, v)
    \/ \E p \in People : registerValidator(p) \/ unregister(p)
                         \/ setSlashingAuthority(p) \/ changeBeneficiary(p)
    \/ \E r \in DOMAIN requests : completeBridge(r) \/ revertBridge(r)
    \/ release

ContractsNext == \/ calls < MaxCalls /\ calls' = calls + 1 /\ Call
                 \/ Tick /\ UNCHANGED calls

ContractsSpec == ContractsInit /\ [][ContractsNext]_contractVars
-----------------------------------------------------------------------------
(* What the staking contract owes each validator, and the bridge for each   *)
(* request.                                                                 *)
Stakes == [p \in People |-> IF validators[p].isActive THEN validators[p].stake ELSE 0]
Claims == [r \in DOMAIN requests |-> IF requests[r] = "open" THEN Amount(r) ELSE 0]

(* The staking contract can pay every active validator its stake back at    *)
(* the same time, whatever registrations, increases and slashes came before.*)
StakesBacked == balanceOf[Staking] >= SumFunctionOnSet(Stakes, People)

(* The bridge can settle every open request, including after a request was  *)
(* overwritten by one with the same id, and however completions and reverts *)
(* race around the expiry.                                                  *)
BridgeBacked == balanceOf[Bridge] >= SumFunctionOnSet(Claims, DOMAIN requests)

(* What has left the vesting contract is at most what vestedAmount grants   *)
(* by now, whatever is released and transferred.  vestedAmount grants       *)
(* Cliff / Duration of the whole, a quarter, as the cliff ends: the         *)
(* contract's header and the Whitepaper speak of a linear release that only *)
(* begins there.                                                            *)
ReleasedWithinVested ==
    distributed => FounderAmount - balanceOf[Vesting] <= vestedAmount
=============================================================================
