--------------------------- MODULE LiquidStaking ---------------------------
(***************************************************************************)
(* src/contracts/liquid_staking: users stake CSPR with a validator for     *)
(* ySCSPR, ask to unstake, and claim after the unbonding delay; the keeper *)
(* reports rewards and moves CSPR between the contract and the auction.    *)
(*                                                                         *)
(* The contract is modelled as an open system.  What it reads from the     *)
(* validator registry (the score of the validator and the network average) *)
(* is an input of Stake; the ySCSPR token is the StayerToken it calls.     *)
(* Every call names the era it believes current.  The frontend sends one   *)
(* it has fetched, but the contract compares the argument with nothing, so *)
(* a call may name any u64, past or to come.                               *)
(*                                                                         *)
(* A call that reverts leaves no trace (Odra rolls the whole transaction   *)
(* back, the token's part included), so each action is the call that       *)
(* succeeds.  U512, U256 and u128 amounts of motes are natural numbers:    *)
(* the supply of CSPR keeps them far from their width.                     *)
(***************************************************************************)
EXTENDS Integers, FiniteSets, Functions

CONSTANTS
  Users,            \* accounts that stake and hold ySCSPR
  Validators,
  Owner,            \* the deployer
  Keepers,          \* accounts the owner may appoint keeper
  MIN_STAKE, MAX_SINGLE_STAKE,
  UNBONDING_DELAY,
  PROTOCOL_FEE_BPS, MIN_MULTIPLIER, MAX_MULTIPLIER, BASIS_POINTS,
  MOTES_PER_CSPR,   \* also the precision of the exchange rate
  StakeAmounts,     \* CSPR a stake may attach
  TokenAmounts,     \* ySCSPR an unstake or a transfer may name
  KeeperAmounts,    \* CSPR a keeper call may name, report or attach
  Scores, Averages, \* what the registry may answer
  EraArgs,          \* eras a call may name
  U64,              \* 2^64; sums of eras wrap, as the build checks no overflow
  MaxEra, MaxRequests, MaxPool  \* bounds on the era, the requests, the pool

ASSUME StakingAssumption ==
  /\ IsFiniteSet(Users) /\ IsFiniteSet(Validators)
  /\ MIN_STAKE \in Nat \ {0} /\ MAX_SINGLE_STAKE \in Nat
  /\ UNBONDING_DELAY \in Nat
  /\ BASIS_POINTS \in Nat \ {0} /\ PROTOCOL_FEE_BPS \in 0..BASIS_POINTS
  /\ MIN_MULTIPLIER \in Nat /\ MAX_MULTIPLIER \in Nat
  /\ MIN_MULTIPLIER <= BASIS_POINTS /\ BASIS_POINTS <= MAX_MULTIPLIER
  /\ MOTES_PER_CSPR \in Nat \ {0}
  /\ StakeAmounts \subseteq Nat /\ TokenAmounts \subseteq Nat
  /\ KeeperAmounts \subseteq Nat
  /\ Scores \subseteq Nat /\ Averages \subseteq Nat
  /\ U64 \in Nat \ {0} /\ EraArgs \subseteq 0..(U64 - 1)

VARIABLES
  keeper,
  user_stakes, validator_total_stake, total_staked, total_pending_withdrawal,
  withdrawal_requests, user_pending_withdrawals, next_request_id,
  last_harvest_era,
  pending_delegations, pending_undelegations, total_delegated,
  purse,                 \* the contract's own CSPR
  received,              \* what claims have paid into each user's account
  y_balances, y_supply,  \* the ySCSPR token
  network_era,           \* the era of the Casper network
  requested_at           \* history: the network's era when a request was made

stakeVars    == <<user_stakes, validator_total_stake, total_staked>>
requestVars  == <<withdrawal_requests, user_pending_withdrawals,
                  next_request_id, total_pending_withdrawal, requested_at, received>>
delegateVars == <<pending_delegations, pending_undelegations, total_delegated>>
tokenVars    == <<y_balances, y_supply>>
adminVars    == <<keeper, last_harvest_era, network_era>>
vars == <<stakeVars, requestVars, delegateVars, tokenVars, adminVars, purse>>

\* ySCSPR as this contract sees it: it is one of the authorised minters, and
\* no call of the contract or of a holder in this module uses an allowance.
Contract == "LiquidStaking"
YSCSPR == INSTANCE StayerToken WITH
            Accounts <- Users, Minters <- {Contract}, InitialMinter <- Contract,
            Amounts <- TokenAmounts, MaxSupply <- MaxPool,
            balances <- y_balances, total_supply <- y_supply,
            allowances <- {}, authorized_minters <- {Contract}, grants <- {}

(***************************************************************************)
(* Types and initial state.                                                *)
(***************************************************************************)
Stakes == Users \X Validators
RequestIds == 1..(next_request_id - 1)
Requests == [user : Users, amount : Nat, unlock_era : Nat,
             status : {"Pending", "Claimed"}]
\* The Vec of pending (un)delegations: one entry per validator, since a new
\* amount is merged into the entry the validator already has.  The eras of the
\* entries, which nothing reads, are left out.
IsPendingList(p) == DOMAIN p \subseteq Validators /\ p \in [DOMAIN p -> Nat]

TypeOK ==
  /\ keeper \in Keepers
  /\ user_stakes \in [Stakes -> Nat]
  /\ validator_total_stake \in [Validators -> Nat]
  /\ total_staked \in Nat
  /\ total_pending_withdrawal \in Nat
  /\ next_request_id \in Nat \ {0}
  /\ withdrawal_requests \in [RequestIds -> Requests]
  /\ requested_at \in [RequestIds -> Nat]
  /\ user_pending_withdrawals \in [Users -> SUBSET RequestIds]
  /\ last_harvest_era \in Nat
  /\ IsPendingList(pending_delegations)
  /\ IsPendingList(pending_undelegations)
  /\ total_delegated \in Nat
  /\ purse \in Nat
  /\ received \in [Users -> Nat]
  /\ y_balances \in [Users -> Nat]
  /\ y_supply \in Nat
  /\ network_era \in Nat

Init ==
  /\ keeper \in Keepers
  /\ user_stakes = [s \in Stakes |-> 0]
  /\ validator_total_stake = [v \in Validators |-> 0]
  /\ total_staked = 0
  /\ total_pending_withdrawal = 0
  /\ next_request_id = 1
  /\ withdrawal_requests = [id \in {} |-> 0]
  /\ requested_at = [id \in {} |-> 0]
  /\ user_pending_withdrawals = [u \in Users |-> {}]
  /\ last_harvest_era = 0
  /\ pending_delegations = [v \in {} |-> 0]
  /\ pending_undelegations = [v \in {} |-> 0]
  /\ total_delegated = 0
  /\ purse = 0
  /\ received = [u \in Users |-> 0]
  /\ y_balances = [u \in Users |-> 0]
  /\ y_supply = 0
  /\ network_era = 1

(***************************************************************************)
(* Helpers.                                                                *)
(***************************************************************************)
RequireKeeper(caller) == caller \in {keeper, Owner}

\* Mutant: a subtraction that does not stop at zero.
UncheckedSub(a, b) == a - b

\* checked_sub(b).unwrap_or_default(): what would go below zero is zero.
CheckedSub(a, b) == IF b <= a THEN a - b ELSE 0

ExchangeRate(staked, supply) ==
  IF supply = 0 THEN MOTES_PER_CSPR ELSE (staked * MOTES_PER_CSPR) \div supply

\* Mutant: the upper clamp is missing.
CalculateMultiplierUnclamped(p_score, p_avg) ==
  IF p_avg = 0 THEN BASIS_POINTS
  ELSE LET multiplier == (p_score * BASIS_POINTS) \div p_avg
       IN  IF multiplier < MIN_MULTIPLIER THEN MIN_MULTIPLIER ELSE multiplier

CalculateMultiplier(p_score, p_avg) ==
  IF p_avg = 0 THEN BASIS_POINTS
  ELSE LET multiplier == (p_score * BASIS_POINTS) \div p_avg
       IN  IF multiplier < MIN_MULTIPLIER THEN MIN_MULTIPLIER
           ELSE IF multiplier > MAX_MULTIPLIER THEN MAX_MULTIPLIER
           ELSE multiplier

MintAmount(amount, p_score, p_avg) ==
  (amount * CalculateMultiplier(p_score, p_avg)) \div BASIS_POINTS

CsprFor(yscspr_amount) ==
  (yscspr_amount * ExchangeRate(total_staked, y_supply)) \div MOTES_PER_CSPR

\* Mutant: the validator's entry is overwritten.
AddPendingOverwrites(pending, v, amount) ==
  [w \in DOMAIN pending \cup {v} |-> IF w # v THEN pending[w] ELSE amount]

\* Merge an amount into the validator's entry, or append an entry.
AddPending(pending, v, amount) ==
  [w \in DOMAIN pending \cup {v} |->
     IF w # v THEN pending[w]
     ELSE IF v \in DOMAIN pending THEN pending[v] + amount ELSE amount]

\* Mutant: a partial confirmation removes the whole entry.
ConfirmPendingInFull(pending, v, amount) == Restrict(pending, DOMAIN pending \ {v})

\* Take a confirmed amount off the validator's entry, which goes when the
\* amount covers it.
ConfirmPending(pending, v, amount) ==
  IF amount >= pending[v]
  THEN Restrict(pending, DOMAIN pending \ {v})
  ELSE [pending EXCEPT ![v] = CheckedSub(@, amount)]

\* Mutants: the status is not stored; the amount is cleared with it.
AsPending(request) == request
AsClaimedAndCleared(request) == [request EXCEPT !.status = "Claimed", !.amount = 0]

AsClaimed(request) == [request EXCEPT !.status = "Claimed"]

Maturing(user, era) ==
  {id \in user_pending_withdrawals[user] :
     /\ withdrawal_requests[id].unlock_era <= era
     /\ withdrawal_requests[id].status = "Pending"}

\* The amount of each request, as far as it is of one of the statuses.
RequestAmounts(requests, statuses) ==
  [id \in DOMAIN requests |->
     IF requests[id].status \in statuses THEN requests[id].amount ELSE 0]

(***************************************************************************)
(* Users' calls.                                                           *)
(***************************************************************************)
\* Mutant: the validator's total is overwritten.
StakeResetsValidator(user, v, amount, p_score, p_avg) ==
  /\ MIN_STAKE <= amount /\ amount <= MAX_SINGLE_STAKE
  /\ p_score # 0
  /\ user_stakes' = [user_stakes EXCEPT ![<<user, v>>] = @ + amount]
  /\ validator_total_stake' = [validator_total_stake EXCEPT ![v] = amount]
  /\ total_staked' = total_staked + amount
  /\ pending_delegations' = AddPending(pending_delegations, v, amount)
  /\ YSCSPR!Mint(Contract, user, MintAmount(amount, p_score, p_avg))
  /\ purse' = purse + amount
  /\ UNCHANGED <<requestVars, pending_undelegations, total_delegated, adminVars>>

\* The registry has answered that v is valid, with score p_score, and that
\* the network's average is p_avg.
Stake(user, v, amount, p_score, p_avg) ==
  /\ MIN_STAKE <= amount /\ amount <= MAX_SINGLE_STAKE
  /\ p_score # 0
  /\ user_stakes' = [user_stakes EXCEPT ![<<user, v>>] = @ + amount]
  /\ validator_total_stake' = [validator_total_stake EXCEPT ![v] = @ + amount]
  /\ total_staked' = total_staked + amount
  /\ pending_delegations' = AddPending(pending_delegations, v, amount)
  /\ YSCSPR!Mint(Contract, user, MintAmount(amount, p_score, p_avg))
  /\ purse' = purse + amount
  /\ UNCHANGED <<requestVars, pending_undelegations, total_delegated, adminVars>>

Unstake(user, v, yscspr_amount, era) ==
  LET cspr_to_return == CsprFor(yscspr_amount)
      id == next_request_id
  IN /\ yscspr_amount # 0
     /\ cspr_to_return <= user_stakes[<<user, v>>]
     /\ cspr_to_return <= total_staked \div 10
     /\ YSCSPR!Burn(Contract, user, yscspr_amount)
     /\ user_stakes' =
          [user_stakes EXCEPT ![<<user, v>>] = CheckedSub(@, cspr_to_return)]
     /\ validator_total_stake' =
          [validator_total_stake EXCEPT ![v] = CheckedSub(@, cspr_to_return)]
     /\ next_request_id' = id + 1
     /\ withdrawal_requests' =
          [i \in 1..id |->
             IF i # id THEN withdrawal_requests[i]
             ELSE [user |-> user, amount |-> cspr_to_return,
                   unlock_era |-> (era + UNBONDING_DELAY) % U64,
                   status |-> "Pending"]]
     /\ requested_at' = [i \in 1..id |-> IF i # id THEN requested_at[i] ELSE network_era]
     /\ user_pending_withdrawals' =
          [user_pending_withdrawals EXCEPT ![user] = @ \cup {id}]
     /\ total_staked' = CheckedSub(total_staked, cspr_to_return)
     /\ total_pending_withdrawal' = total_pending_withdrawal + cspr_to_return
     /\ pending_undelegations' = AddPending(pending_undelegations, v, cspr_to_return)
     /\ UNCHANGED <<pending_delegations, total_delegated, purse, received, adminVars>>

\* Mutant: only the last of the matured requests is paid.
ClaimPaysLast(user, era) ==
  LET claimed == Maturing(user, era)
      last == CHOOSE id \in claimed : \A other \in claimed : other <= id
      total_claimable == withdrawal_requests[last].amount
  IN /\ claimed # {}
     /\ total_claimable <= purse
     /\ withdrawal_requests' =
          [id \in DOMAIN withdrawal_requests |->
             IF id \in claimed THEN AsClaimed(withdrawal_requests[id])
             ELSE withdrawal_requests[id]]
     /\ user_pending_withdrawals' = [user_pending_withdrawals EXCEPT ![user] = @ \ claimed]
     /\ total_pending_withdrawal' = CheckedSub(total_pending_withdrawal, total_claimable)
     /\ purse' = purse - total_claimable
     /\ received' = [received EXCEPT ![user] = @ + total_claimable]
     /\ UNCHANGED <<stakeVars, next_request_id, requested_at, delegateVars,
                    tokenVars, adminVars>>

\* All matured requests at once, or none: the transfer reverts when the
\* contract holds less than their sum.
Claim(user, era) ==
  LET claimed == Maturing(user, era)
      total_claimable ==
        SumFunctionOnSet([id \in claimed |-> withdrawal_requests[id].amount], claimed)
  IN /\ total_claimable # 0
     /\ total_claimable <= purse
     /\ withdrawal_requests' =
          [id \in DOMAIN withdrawal_requests |->
             IF id \in claimed THEN AsClaimed(withdrawal_requests[id])
             ELSE withdrawal_requests[id]]
     /\ user_pending_withdrawals' = [user_pending_withdrawals EXCEPT ![user] = @ \ claimed]
     /\ total_pending_withdrawal' = CheckedSub(total_pending_withdrawal, total_claimable)
     /\ purse' = purse - total_claimable
     /\ received' = [received EXCEPT ![user] = @ + total_claimable]
     /\ UNCHANGED <<stakeVars, next_request_id, requested_at, delegateVars,
                    tokenVars, adminVars>>

\* A holder moves ySCSPR; the stakes it came from do not move with it.
TransferYSCSPR(from, to, amount) ==
  /\ YSCSPR!Transfer(from, to, amount)
  /\ UNCHANGED <<stakeVars, requestVars, delegateVars, adminVars, purse>>

(***************************************************************************)
(* The keeper's and the owner's calls.                                     *)
(***************************************************************************)
\* Mutant: the rewards replace the pool instead of joining it.
HarvestReplacesPool(caller, new_total_delegation, era) ==
  LET expected_total == total_staked + total_pending_withdrawal
      rewards_earned == new_total_delegation - expected_total
      protocol_fee == (rewards_earned * PROTOCOL_FEE_BPS) \div BASIS_POINTS
  IN /\ RequireKeeper(caller)
     /\ era > last_harvest_era
     /\ last_harvest_era' = era
     /\ total_staked' = IF new_total_delegation <= expected_total THEN total_staked
                        ELSE rewards_earned - protocol_fee
     /\ UNCHANGED <<user_stakes, validator_total_stake, requestVars, delegateVars,
                    tokenVars, keeper, network_era, purse>>

HarvestRewards(caller, new_total_delegation, era) ==
  LET expected_total == total_staked + total_pending_withdrawal
      rewards_earned == new_total_delegation - expected_total
      protocol_fee == (rewards_earned * PROTOCOL_FEE_BPS) \div BASIS_POINTS
  IN /\ RequireKeeper(caller)
     /\ era > last_harvest_era
     /\ last_harvest_era' = era
     /\ total_staked' = IF new_total_delegation <= expected_total THEN total_staked
                        ELSE total_staked + (rewards_earned - protocol_fee)
     /\ UNCHANGED <<user_stakes, validator_total_stake, requestVars, delegateVars,
                    tokenVars, keeper, network_era, purse>>

\* The CSPR goes to the caller.  The entry stays until it is confirmed.
WithdrawForDelegation(caller, v, amount) ==
  /\ RequireKeeper(caller)
  /\ v \in DOMAIN pending_delegations
  /\ pending_delegations[v] # 0
  /\ amount <= pending_delegations[v]
  /\ amount <= purse
  /\ purse' = purse - amount
  /\ UNCHANGED <<stakeVars, requestVars, delegateVars, tokenVars, adminVars>>

ConfirmDelegation(caller, v, amount) ==
  /\ RequireKeeper(caller)
  /\ v \in DOMAIN pending_delegations
  /\ pending_delegations' = ConfirmPending(pending_delegations, v, amount)
  /\ total_delegated' = total_delegated + amount
  /\ UNCHANGED <<stakeVars, requestVars, pending_undelegations, tokenVars,
                 adminVars, purse>>

ConfirmUndelegation(caller, v, amount) ==
  /\ RequireKeeper(caller)
  /\ v \in DOMAIN pending_undelegations
  /\ pending_undelegations' = ConfirmPending(pending_undelegations, v, amount)
  /\ total_delegated' = CheckedSub(total_delegated, amount)
  /\ UNCHANGED <<stakeVars, requestVars, pending_delegations, tokenVars,
                 adminVars, purse>>

DepositFromUndelegation(caller, amount) ==
  /\ RequireKeeper(caller)
  /\ purse' = purse + amount
  /\ UNCHANGED <<stakeVars, requestVars, delegateVars, tokenVars, adminVars>>

SetKeeper(caller, new_keeper) ==
  /\ caller = Owner
  /\ keeper' = new_keeper
  /\ UNCHANGED <<stakeVars, requestVars, delegateVars, tokenVars,
                 last_harvest_era, network_era, purse>>

\* The network enters its next era.
NewEra ==
  /\ network_era < MaxEra
  /\ network_era' = network_era + 1
  /\ UNCHANGED <<stakeVars, requestVars, delegateVars, tokenVars, keeper,
                 last_harvest_era, purse>>

(***************************************************************************)
(* The contract with its callers.                                          *)
(***************************************************************************)
UserNext ==
  \E user \in Users :
    \/ \E v \in Validators, amount \in StakeAmounts, p_score \in Scores, p_avg \in Averages :
         total_staked + amount <= MaxPool /\ Stake(user, v, amount, p_score, p_avg)
    \/ \E v \in Validators, amount \in TokenAmounts, era \in EraArgs :
         next_request_id <= MaxRequests /\ Unstake(user, v, amount, era)
    \/ \E era \in EraArgs : Claim(user, era)
    \/ \E to \in Users, amount \in TokenAmounts : TransferYSCSPR(user, to, amount)

KeeperNext ==
  \E caller \in Keepers \cup {Owner}, amount \in KeeperAmounts :
    \/ \E era \in EraArgs : amount <= MaxPool /\ HarvestRewards(caller, amount, era)
    \/ \E v \in Validators :
         \/ WithdrawForDelegation(caller, v, amount)
         \/ total_delegated + amount <= MaxPool /\ ConfirmDelegation(caller, v, amount)
         \/ ConfirmUndelegation(caller, v, amount)
    \/ purse + amount <= MaxPool /\ DepositFromUndelegation(caller, amount)

OwnerNext == \E new_keeper \in Keepers : SetKeeper(Owner, new_keeper)

Next == UserNext \/ KeeperNext \/ OwnerNext \/ NewEra

Spec == Init /\ [][Next]_vars

(***************************************************************************)
(* What must hold of the books.                                            *)
(***************************************************************************)
\* A validator's total is the sum of what the users staked with it.
ValidatorTotals ==
  \A v \in Validators :
    validator_total_stake[v] = SumFunctionOnSet(user_stakes, Users \X {v})

Principal == SumFunction(user_stakes)

\* The pool never falls below what users have staked and not taken back: the
\* subtractions of unstake, which default to zero on underflow, never do.
PrincipalCovered == Principal <= total_staked

\* total_pending_withdrawal is the sum of the requests not yet claimed.
PendingIsSum ==
  total_pending_withdrawal =
    SumFunction(RequestAmounts(withdrawal_requests, {"Pending"}))

\* A user's list holds exactly the requests of that user that are pending: no
\* request is lost to its owner, listed twice or under two users.
PendingListed ==
  \A user \in Users :
    user_pending_withdrawals[user] =
      {id \in RequestIds : /\ withdrawal_requests[id].user = user
                           /\ withdrawal_requests[id].status = "Pending"}

\* ySCSPR in circulation is what its holders own.
SupplyIsSum == y_supply = SumFunction(y_balances)

\* No ySCSPR is ever backed by less CSPR than at the highest multiplier: the
\* exchange rate has a floor, whatever the order of stakes, unstakes, harvests.
RateFloor == y_supply * BASIS_POINTS <= total_staked * MAX_MULTIPLIER

(***************************************************************************)
(* What a step may never do.                                               *)
(***************************************************************************)
\* A request never changes but from pending to claimed, and is never dropped:
\* the era, the amount and the user of a request are those it was made with,
\* and what was claimed is not claimed again.
RequestsAreFinal ==
  [][\A id \in RequestIds :
       withdrawal_requests'[id] \in
         {withdrawal_requests[id],
          [withdrawal_requests[id] EXCEPT !.status = "Claimed"]}]_vars

\* The keeper's queues follow the stakes: what a step adds to the principal is
\* queued for delegation, what it takes is queued for undelegation, in full
\* and whatever the queues already hold.
QueuesFollowPrincipal ==
  [][LET staked == Principal' - Principal
     IN /\ staked > 0 => SumFunction(pending_delegations') =
                           SumFunction(pending_delegations) + staked
        /\ staked < 0 => SumFunction(pending_undelegations') =
                           SumFunction(pending_undelegations) - staked]_vars

\* Nothing leaves the delegation queue but as delegated: what a confirmation
\* takes off the queue is in total_delegated.
ConfirmedIsDelegated ==
  [][LET taken == SumFunction(pending_delegations) - SumFunction(pending_delegations')
     IN  taken > 0 => total_delegated' - total_delegated >= taken]_vars

\* While no ySCSPR is minted the exchange rate never falls: neither the
\* rounding of an unstake nor a harvest takes value from the holders.
RateFallsOnlyByMint ==
  [][y_supply' <= y_supply /\ y_supply' # 0 =>
       ExchangeRate(total_staked', y_supply') >= ExchangeRate(total_staked, y_supply)]_vars

(***************************************************************************)
(* What the contract promises.                                             *)
(***************************************************************************)
\* Each request without its status, and those of them that were paid.
Promised ==
  [id \in RequestIds |-> [user       |-> withdrawal_requests[id].user,
                          amount     |-> withdrawal_requests[id].amount,
                          unlock_era |-> withdrawal_requests[id].unlock_era]]

PaidIds == {id \in RequestIds : withdrawal_requests[id].status = "Claimed"}

Promise == INSTANCE WithdrawalPromise WITH
             requests <- Promised, paid <- PaidIds

\* Through the requests, the users' lists and the keeper's queues, the
\* contract keeps the promise: unstake asks; claim pays its caller all that is
\* due to him in the era he names, in full, and marks exactly that as paid; no
\* other call pays anybody or touches a request.
PromiseKept == Promise!Spec

(***************************************************************************)
(* What the documents say and the code does not do.                        *)
(***************************************************************************)
\* "Request unstake, 7 era waiting period": a request is claimed only when the
\* network is UNBONDING_DELAY eras past its making.  Both eras that the delay is
\* measured between are the ones the calls name.
WaitingPeriod ==
  [][\A id \in RequestIds :
       withdrawal_requests'[id].status # withdrawal_requests[id].status =>
         network_era >= requested_at[id] + UNBONDING_DELAY]_vars

\* The whitepaper divides the amount minted by the exchange rate, so that
\* users entering at different times are treated alike: what a stake mints is
\* worth, at the rate before it, at most the stake at the highest multiplier.
MintFollowsRate ==
  [][y_supply' > y_supply =>
       (y_supply' - y_supply) * ExchangeRate(total_staked, y_supply) * BASIS_POINTS
         <= (total_staked' - total_staked) * MAX_MULTIPLIER * MOTES_PER_CSPR]_vars
=============================================================================
