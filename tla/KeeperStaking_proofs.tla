------------------------ MODULE KeeperStaking_proofs ------------------------
(***************************************************************************)
(* The liquid staking contract and, over it, the worker.                   *)
(*                                                                         *)
(* The first part is of the contract alone (Spec): what TLC checks on      *)
(* small instances in the MCLiquidStaking configurations, for any users,   *)
(* validators and amounts.  The second is of the worker over the contract  *)
(* (WorkerSpec): what TLC checks with two handlers and one fault, for any  *)
(* number of handlers, users, validators, faults and late transactions.    *)
(*                                                                         *)
(* The books (IInv) are inductive under each step of the contract, whoever *)
(* takes it, so the second part keeps them with the lemmas of the first.   *)
(***************************************************************************)
EXTENDS KeeperStaking, SumLemmas

(***************************************************************************)
(* Arithmetic of the flooring divisions.                                   *)
(***************************************************************************)
LEMMA DivNat ==
  ASSUME NEW a \in Nat, NEW b \in Nat \ {0}
  PROVE  a \div b \in Nat /\ (a \div b) * b <= a
OBVIOUS

LEMMA FeeAtMostReward ==
  ASSUME NEW r \in Nat
  PROVE  (r * PROTOCOL_FEE_BPS) \div BASIS_POINTS \in 0..r
<1> DEFINE q == (r * PROTOCOL_FEE_BPS) \div BASIS_POINTS
<1>1. PROTOCOL_FEE_BPS \in Nat /\ BASIS_POINTS \in Nat \ {0} /\ PROTOCOL_FEE_BPS <= BASIS_POINTS
  BY StakingAssumption
<1>2. r * PROTOCOL_FEE_BPS \in Nat
  BY <1>1
<1>3. q \in Nat /\ q * BASIS_POINTS <= r * PROTOCOL_FEE_BPS
  BY <1>1, <1>2, DivNat
<1>4. r * PROTOCOL_FEE_BPS <= r * BASIS_POINTS
  BY <1>1
<1>5. q * BASIS_POINTS <= r * BASIS_POINTS
  BY <1>1, <1>2, <1>3, <1>4
<1> HIDE DEF q
<1>6. q <= r
  BY <1>1, <1>3, <1>5
<1> QED BY <1>3, <1>6 DEF q

(***************************************************************************)
(* Finite sets and the types of what the actions compute.                  *)
(***************************************************************************)
LEMMA Finiteness ==
  /\ IsFiniteSet(Users) /\ IsFiniteSet(Stakes)
  /\ \A v \in Validators : IsFiniteSet(Users \X {v}) /\ Users \X {v} \subseteq Stakes
  /\ \A n \in Nat : IsFiniteSet(1..n)
<1>1. IsFiniteSet(Users) /\ IsFiniteSet(Validators)
  BY StakingAssumption
<1>2. IsFiniteSet(Stakes)
  BY <1>1, FS_Product DEF Stakes
<1>3. ASSUME NEW v \in Validators
      PROVE  IsFiniteSet(Users \X {v}) /\ Users \X {v} \subseteq Stakes
  <2>1. Users \X {v} \subseteq Stakes
    BY DEF Stakes
  <2> QED BY <1>2, <2>1, FS_Subset
<1>4. \A n \in Nat : IsFiniteSet(1..n)
  BY FS_Interval
<1> QED BY <1>1, <1>2, <1>3, <1>4

LEMMA MintAmountNat ==
  ASSUME NEW amount \in Nat, NEW p_score \in Nat, NEW p_avg \in Nat
  PROVE  MintAmount(amount, p_score, p_avg) \in Nat
<1>1. /\ BASIS_POINTS \in Nat \ {0} /\ MIN_MULTIPLIER \in Nat
      /\ MAX_MULTIPLIER \in Nat
  BY StakingAssumption
<1>2. p_score * BASIS_POINTS \in Nat
  BY <1>1
<1>3. p_avg # 0 => (p_score * BASIS_POINTS) \div p_avg \in Nat
  BY <1>2, DivNat
<1>4. CalculateMultiplier(p_score, p_avg) \in Nat
  BY <1>1, <1>3 DEF CalculateMultiplier
<1>5. amount * CalculateMultiplier(p_score, p_avg) \in Nat
  BY <1>4
<1> QED BY <1>1, <1>5, DivNat DEF MintAmount

LEMMA CsprForNat ==
  ASSUME TypeOK, NEW yscspr_amount \in Nat
  PROVE  CsprFor(yscspr_amount) \in Nat
<1>1. MOTES_PER_CSPR \in Nat \ {0} /\ total_staked \in Nat /\ y_supply \in Nat
  BY StakingAssumption DEF TypeOK
<1>2. total_staked * MOTES_PER_CSPR \in Nat
  BY <1>1
<1>3. ExchangeRate(total_staked, y_supply) \in Nat
  BY <1>1, <1>2, DivNat DEF ExchangeRate
<1>4. yscspr_amount * ExchangeRate(total_staked, y_supply) \in Nat
  BY <1>3
<1> QED BY <1>1, <1>4, DivNat DEF CsprFor

LEMMA EraArgsNat ==
  ASSUME NEW era \in EraArgs
  PROVE  era \in Nat
BY StakingAssumption

\* An unlock era is a natural number, wrapped or not.
LEMMA UnlockNat ==
  ASSUME NEW era \in Nat
  PROVE  (era + UNBONDING_DELAY) % U64 \in Nat
<1>1. \A m \in Nat \ {0}, x \in Nat : x % m \in Nat
  OBVIOUS
<1>2. U64 \in Nat \ {0} /\ era + UNBONDING_DELAY \in Nat
  BY StakingAssumption
<1> QED BY <1>1, <1>2

LEMMA AddPendingType ==
  ASSUME NEW p, IsPendingList(p), NEW v \in Validators, NEW amount \in Nat
  PROVE  IsPendingList(AddPending(p, v, amount))
BY DEF IsPendingList, AddPending

LEMMA ConfirmPendingType ==
  ASSUME NEW p, IsPendingList(p), NEW v \in DOMAIN p, NEW amount \in Nat
  PROVE  IsPendingList(ConfirmPending(p, v, amount))
BY DEF IsPendingList, ConfirmPending, Restrict, CheckedSub

(***************************************************************************)
(* Sums.                                                                   *)
(***************************************************************************)
\* A stake or an unstake changes the user's stake with one validator by d,
\* and with it the principal and that validator's sum.
LEMMA StakeSums ==
  ASSUME NEW us \in [Stakes -> Nat], NEW us2 \in [Stakes -> Nat],
         NEW user \in Users, NEW v \in Validators, NEW d \in Int,
         us2[<<user, v>>] = us[<<user, v>>] + d,
         \A s \in Stakes : s # <<user, v>> => us2[s] = us[s]
  PROVE  /\ SumFunction(us2) = SumFunction(us) + d
         /\ \A w \in Validators :
              SumFunctionOnSet(us2, Users \X {w}) =
                SumFunctionOnSet(us, Users \X {w}) + (IF w = v THEN d ELSE 0)
<1> DEFINE k == <<user, v>>
<1>1. k \in Stakes /\ us2[k] - us[k] = d
  BY DEF Stakes
<1>2. \A x \in Stakes : us[x] \in Int /\ us2[x] \in Int /\ (x # k => us2[x] = us[x])
  OBVIOUS
<1>3. DOMAIN us = Stakes /\ DOMAIN us2 = Stakes
  OBVIOUS
<1>4. SumFunctionOnSet(us2, Stakes) = SumFunctionOnSet(us, Stakes) + d
  <2>1. \A x \in Stakes : us[x] \in Int /\ us2[x] \in Int
    BY <1>2
  <2>2. \A x \in Stakes : x # k => us2[x] = us[x]
    BY <1>2
  <2>3. IsFiniteSet(Stakes)
    BY Finiteness
  <2> HIDE DEF k
  <2>4. SumFunctionOnSet(us2, Stakes) = SumFunctionOnSet(us, Stakes) +
          (IF k \in Stakes THEN us2[k] - us[k] ELSE 0)
    BY <2>1, <2>2, <2>3, SumOnChange
  <2> QED BY <1>1, <2>4
<1>5. ASSUME NEW w \in Validators
      PROVE  SumFunctionOnSet(us2, Users \X {w}) =
               SumFunctionOnSet(us, Users \X {w}) + (IF w = v THEN d ELSE 0)
  <2> DEFINE S == Users \X {w}
  <2>1. IsFiniteSet(S) /\ S \subseteq Stakes
    BY Finiteness
  <2>2. k \in S <=> w = v
    OBVIOUS
  <2>3. SumFunctionOnSet(us2, S) =
          SumFunctionOnSet(us, S) + (IF k \in S THEN us2[k] - us[k] ELSE 0)
    <3>1. \A x \in S : us[x] \in Int /\ us2[x] \in Int
      BY <1>2, <2>1
    <3>2. \A x \in S : x # k => us2[x] = us[x]
      BY <1>2, <2>1
    <3> HIDE DEF k, S
    <3> QED BY <3>1, <3>2, <2>1, SumOnChange
  <2> HIDE DEF k
  <2> QED BY <1>1, <2>2, <2>3
<1> QED BY <1>3, <1>4, <1>5 DEF SumFunction

\* The sum of the pending amounts when request n + 1 is made.
LEMMA NewRequestSum ==
  ASSUME NEW n \in Nat, NEW r \in [1..n -> Requests], NEW r2 \in [1..(n + 1) -> Requests],
         \A i \in 1..n : r2[i] = r[i], r2[n + 1].status = "Pending"
  PROVE  SumFunction(RequestAmounts(r2, {"Pending"})) =
           SumFunction(RequestAmounts(r, {"Pending"})) + r2[n + 1].amount
<1> DEFINE a == RequestAmounts(r, {"Pending"})
           a2 == RequestAmounts(r2, {"Pending"})
<1>1. /\ a \in [1..n -> Nat] /\ a2 \in [1..(n + 1) -> Nat]
      /\ \A i \in 1..n : a2[i] = a[i] 
      /\ a2[n + 1] = r2[n + 1].amount
  BY DEF RequestAmounts, Requests
<1> HIDE DEF a, a2
<1>2. n + 1 \in 1..(n + 1) /\ (1..(n + 1)) \ {n + 1} = 1..n
  OBVIOUS
<1>3. IsFiniteSet(1..n) /\ IsFiniteSet(1..(n + 1))
  BY Finiteness
<1>4. SumFunctionOnSet(a2, 1..(n + 1)) = a2[n + 1] + SumFunctionOnSet(a2, 1..n)
  <2> DEFINE S == 1..(n + 1)
             k == n + 1
  <2>1. \A x \in S : a2[x] \in Int
    BY <1>1
  <2>2. k \in S /\ S \ {k} = 1..n /\ IsFiniteSet(S)
    BY <1>2, <1>3
  <2> HIDE DEF S, k
  <2>3. SumFunctionOnSet(a2, S) = a2[k] + SumFunctionOnSet(a2, S \ {k})
    BY <2>1, <2>2, SumOnSplit
  <2> QED BY <2>2, <2>3 DEF S, k
<1>5. SumFunctionOnSet(a2, 1..n) = SumFunctionOnSet(a, 1..n)
  BY <1>1, <1>3, SumOnCong
<1>6. SumFunctionOnSet(a, 1..n) \in Int /\ a2[n + 1] \in Int
  BY <1>1, <1>2, <1>3, SumOnInt
<1> QED BY <1>1, <1>4, <1>5, <1>6 DEF SumFunction, a, a2

LEMMA AsClaimedType ==
  ASSUME NEW r \in Requests
  PROVE  /\ AsClaimed(r) \in Requests /\ AsClaimed(r).status = "Claimed"
         /\ AsClaimed(r).amount = r.amount /\ AsClaimed(r).user = r.user
BY DEF AsClaimed, Requests

\* The sum of the pending amounts when the requests of a set are claimed.
LEMMA ClaimSum ==
  ASSUME NEW n \in Nat, NEW r \in [1..n -> Requests], NEW claimed \in SUBSET (1..n),
         \A i \in claimed : r[i].status = "Pending",
         NEW r2,
         r2 = [i \in 1..n |-> IF i \in claimed THEN AsClaimed(r[i]) ELSE r[i]]
  PROVE  LET total == SumFunctionOnSet([i \in claimed |-> r[i].amount], claimed)
         IN  /\ total \in Nat
             /\ SumFunction(RequestAmounts(r2, {"Pending"})) \in Nat
             /\ SumFunction(RequestAmounts(r, {"Pending"})) =
                  SumFunction(RequestAmounts(r2, {"Pending"})) + total
<1> DEFINE a == RequestAmounts(r, {"Pending"})
           a2 == RequestAmounts(r2, {"Pending"})
           c == [i \in claimed |-> r[i].amount]
           rest == (1..n) \ claimed
<1>1. /\ a \in [1..n -> Nat] /\ a2 \in [1..n -> Nat]
      /\ \A i \in claimed : a[i] = c[i] /\ a2[i] = 0
      /\ \A i \in rest : a2[i] = a[i]
      /\ \A i \in claimed : c[i] \in Nat
  <2>1. \A i \in 1..n : r[i] \in Requests
    OBVIOUS
  <2>2. \A i \in 1..n : r[i].amount \in Nat
    BY <2>1 DEF Requests
  <2>3. DOMAIN r = 1..n /\ DOMAIN r2 = 1..n
    OBVIOUS
  <2>4. \A i \in claimed : r2[i].status = "Claimed" /\ r2[i].amount = r[i].amount
    BY <2>1, AsClaimedType
  <2>5. \A i \in rest : r2[i] = r[i]
    OBVIOUS
  <2>6. a \in [1..n -> Nat]
    BY <2>2, <2>3 DEF RequestAmounts
  <2>7. \A i \in 1..n : r2[i].amount \in Nat
    BY <2>2, <2>4, <2>5
  <2>8. a2 \in [1..n -> Nat]
    BY <2>3, <2>7 DEF RequestAmounts
  <2>9. \A i \in claimed : a[i] = c[i] /\ a2[i] = 0
    BY <2>3, <2>4 DEF RequestAmounts
  <2>10. \A i \in rest : a2[i] = a[i]
    BY <2>3, <2>5 DEF RequestAmounts
  <2> HIDE DEF a, a2
  <2> QED BY <2>2, <2>6, <2>8, <2>9, <2>10
<1> HIDE DEF a, a2, c
<1>2. IsFiniteSet(1..n) /\ IsFiniteSet(claimed) /\ IsFiniteSet(rest)
  BY Finiteness, FS_Subset
<1>3. /\ SumFunctionOnSet(a, 1..n) = SumFunctionOnSet(a, claimed) + SumFunctionOnSet(a, rest)
      /\ SumFunctionOnSet(a2, 1..n) = SumFunctionOnSet(a2, claimed) + SumFunctionOnSet(a2, rest)
  <2>1. \A i \in 1..n : a[i] \in Int /\ a2[i] \in Int
    BY <1>1
  <2>2. SumFunctionOnSet(a, 1..n) = SumFunctionOnSet(a, claimed) + SumFunctionOnSet(a, rest)
    BY <2>1, <1>2, SumOnMinus
  <2>3. SumFunctionOnSet(a2, 1..n) = SumFunctionOnSet(a2, claimed) + SumFunctionOnSet(a2, rest)
    BY <2>1, <1>2, SumOnMinus
  <2> QED BY <2>2, <2>3
<1>4. SumFunctionOnSet(a, claimed) = SumFunctionOnSet(c, claimed)
  BY <1>1, <1>2, SumOnCong
<1>5. SumFunctionOnSet(a2, claimed) = 0
  BY <1>1, <1>2, SumOnZero
<1>6. SumFunctionOnSet(a2, rest) = SumFunctionOnSet(a, rest)
  BY <1>1, <1>2, SumOnCong
<1>7. /\ SumFunctionOnSet(c, claimed) \in Nat /\ SumFunctionOnSet(a, rest) \in Nat
      /\ SumFunctionOnSet(a2, 1..n) \in Nat
  <2>1. SumFunctionOnSet(c, claimed) \in Nat
    BY <1>1, <1>2, SumOnNat
  <2>2. SumFunctionOnSet(a, rest) \in Nat
    BY <1>1, <1>2, SumOnNat
  <2>3. SumFunctionOnSet(a2, 1..n) \in Nat
    BY <1>1, <1>2, SumOnNat
  <2> QED BY <2>1, <2>2, <2>3
<1>8. DOMAIN a = 1..n /\ DOMAIN a2 = 1..n
  BY <1>1
<1>9. SumFunctionOnSet(a, 1..n) =
        SumFunctionOnSet(a2, 1..n) + SumFunctionOnSet(c, claimed)
  BY <1>3, <1>4, <1>5, <1>6, <1>7
<1> QED BY <1>7, <1>8, <1>9 DEF SumFunction, a, a2, c

(***************************************************************************)
(* The inductive invariant: the books, in the parts that a step touches    *)
(* together.                                                               *)
(***************************************************************************)
StakeBooks ==
  /\ user_stakes \in [Stakes -> Nat]
  /\ validator_total_stake \in [Validators -> Nat]
  /\ total_staked \in Nat
  /\ ValidatorTotals
  /\ PrincipalCovered

RequestBooks ==
  /\ next_request_id \in Nat \ {0}
  /\ withdrawal_requests \in [RequestIds -> Requests]
  /\ requested_at \in [RequestIds -> Nat]
  /\ received \in [Users -> Nat]
  /\ user_pending_withdrawals \in [Users -> SUBSET RequestIds]
  /\ total_pending_withdrawal \in Nat
  /\ PendingIsSum
  /\ PendingListed

QueueBooks ==
  /\ IsPendingList(pending_delegations)
  /\ IsPendingList(pending_undelegations)
  /\ total_delegated \in Nat

TokenBooks ==
  /\ y_balances \in [Users -> Nat]
  /\ y_supply \in Nat
  /\ SupplyIsSum

AdminBooks ==
  /\ keeper \in Keepers
  /\ last_harvest_era \in Nat
  /\ network_era \in Nat

IInv ==
  /\ TypeOK /\ ValidatorTotals /\ PrincipalCovered
  /\ PendingIsSum /\ PendingListed /\ SupplyIsSum

LEMMA IInvParts ==
  IInv <=> StakeBooks /\ RequestBooks /\ QueueBooks /\ TokenBooks /\ AdminBooks /\ purse \in Nat
BY DEF IInv, TypeOK, StakeBooks, RequestBooks, QueueBooks, TokenBooks, AdminBooks

LEMMA IInvPartsNext ==
  IInv' <=> StakeBooks' /\ RequestBooks' /\ QueueBooks' /\ TokenBooks' /\ AdminBooks' /\ purse' \in Nat
BY DEF IInv, TypeOK, StakeBooks, RequestBooks, QueueBooks, TokenBooks, AdminBooks

\* A step that leaves the variables of a part alone keeps the part.
LEMMA SameStakes == StakeBooks /\ UNCHANGED stakeVars => StakeBooks'
BY DEF StakeBooks, stakeVars, ValidatorTotals, PrincipalCovered, Principal

LEMMA SameRequests == RequestBooks /\ UNCHANGED requestVars => RequestBooks'
BY DEF RequestBooks, requestVars, PendingIsSum, PendingListed, RequestIds, RequestAmounts

LEMMA SameQueues == QueueBooks /\ UNCHANGED delegateVars => QueueBooks'
BY DEF QueueBooks, delegateVars, IsPendingList

LEMMA SameToken == TokenBooks /\ UNCHANGED tokenVars => TokenBooks'
BY DEF TokenBooks, tokenVars, SupplyIsSum

LEMMA SameAdmin == AdminBooks /\ UNCHANGED adminVars => AdminBooks'
BY DEF AdminBooks, adminVars

\* A step changes one user's stake with one validator, that validator's total
\* and the pool by the same d.
LEMMA StakeChange ==
  ASSUME StakeBooks, NEW user \in Users, NEW v \in Validators, NEW d \in Int,
         user_stakes' = [user_stakes EXCEPT ![<<user, v>>] = @ + d],
         validator_total_stake' = [validator_total_stake EXCEPT ![v] = @ + d],
         total_staked' = total_staked + d,
         user_stakes[<<user, v>>] + d \in Nat
  PROVE  StakeBooks'
<1>1. user_stakes \in [Stakes -> Nat] /\ <<user, v>> \in Stakes
  BY DEF StakeBooks, Stakes
<1>2. user_stakes' \in [Stakes -> Nat]
  BY <1>1
<1>3. /\ user_stakes'[<<user, v>>] = user_stakes[<<user, v>>] + d
      /\ \A s \in Stakes : s # <<user, v>> => user_stakes'[s] = user_stakes[s]
  BY <1>1
<1>4. /\ SumFunction(user_stakes') = SumFunction(user_stakes) + d
      /\ \A w \in Validators :
           SumFunctionOnSet(user_stakes', Users \X {w}) =
             SumFunctionOnSet(user_stakes, Users \X {w}) + (IF w = v THEN d ELSE 0)
  <2>1. user_stakes'[<<user, v>>] = user_stakes[<<user, v>>] + d
    BY <1>3
  <2>2. \A s \in Stakes : s # <<user, v>> => user_stakes'[s] = user_stakes[s]
    BY <1>3
  <2>3. user \in Users /\ v \in Validators /\ d \in Int
    OBVIOUS
  <2> QED BY ONLY <1>1, <1>2, <2>1, <2>2, <2>3, StakeSums
<1>5. SumFunction(user_stakes) \in Nat /\ SumFunction(user_stakes') \in Nat
  BY <1>1, <1>2, Finiteness, SumLedger
<1>6. PrincipalCovered' /\ total_staked' \in Nat
  BY <1>4, <1>5 DEF StakeBooks, PrincipalCovered, Principal
<1>7. ASSUME NEW w \in Validators
      PROVE  /\ validator_total_stake'[w] = SumFunctionOnSet(user_stakes', Users \X {w})
             /\ validator_total_stake'[w] \in Nat
  <2>1. /\ validator_total_stake[w] = SumFunctionOnSet(user_stakes, Users \X {w})
        /\ validator_total_stake \in [Validators -> Nat]
    BY DEF StakeBooks, ValidatorTotals
  <2>2. validator_total_stake'[w] =
          validator_total_stake[w] + (IF w = v THEN d ELSE 0)
    BY <2>1
  <2>3. SumFunctionOnSet(user_stakes', Users \X {w}) \in Nat
    <3>1. IsFiniteSet(Users \X {w}) /\ Users \X {w} \subseteq Stakes
      BY Finiteness
    <3>2. \A s \in Users \X {w} : user_stakes'[s] \in Nat
      BY <1>2, <3>1
    <3> QED BY <3>1, <3>2, SumOnNat
  <2> QED BY <1>4, <2>1, <2>2, <2>3
<1>8. validator_total_stake' \in [Validators -> Nat]
  BY <1>7 DEF StakeBooks
<1> QED BY <1>2, <1>6, <1>7, <1>8 DEF StakeBooks, ValidatorTotals

\* Request next_request_id is made.
LEMMA RequestMade ==
  ASSUME RequestBooks, NEW user \in Users, NEW request \in Requests,
         request.user = user, request.status = "Pending", NEW era \in Nat,
         next_request_id' = next_request_id + 1,
         withdrawal_requests' =
           [i \in 1..next_request_id |->
              IF i # next_request_id THEN withdrawal_requests[i] ELSE request],
         requested_at' =
           [i \in 1..next_request_id |-> IF i # next_request_id THEN requested_at[i] ELSE era],
         user_pending_withdrawals' =
           [user_pending_withdrawals EXCEPT ![user] = @ \cup {next_request_id}],
         total_pending_withdrawal' = total_pending_withdrawal + request.amount,
         UNCHANGED received
  PROVE  RequestBooks'
<1> DEFINE n == next_request_id - 1
           r == withdrawal_requests
           r2 == withdrawal_requests'
<1>1. /\ n \in Nat /\ n + 1 = next_request_id
      /\ RequestIds = 1..n /\ RequestIds' = 1..(n + 1)
  BY DEF RequestBooks, RequestIds
<1>2. /\ r \in [1..n -> Requests] /\ r2 \in [1..(n + 1) -> Requests]
      /\ \A i \in 1..n : r2[i] = r[i]
      /\ r2[n + 1] = request
  BY <1>1 DEF RequestBooks
<1>3. requested_at' \in [RequestIds' -> Nat]
  BY <1>1 DEF RequestBooks
<1>4. user_pending_withdrawals' \in [Users -> SUBSET RequestIds']
  BY <1>1 DEF RequestBooks
<1>5. total_pending_withdrawal' \in Nat
  BY DEF RequestBooks, Requests
<1>6. PendingIsSum'
  <2>1. \A i \in 1..n : r2[i] = r[i]
    BY <1>2
  <2>2. r2[n + 1].status = "Pending" /\ r2[n + 1].amount = request.amount
    BY <1>2
  <2>3. SumFunction(RequestAmounts(r2, {"Pending"})) =
          SumFunction(RequestAmounts(r, {"Pending"})) + r2[n + 1].amount
    BY ONLY <1>1, <1>2, <2>1, <2>2, NewRequestSum
  <2> QED BY <2>2, <2>3 DEF RequestBooks, PendingIsSum
<1>7. PendingListed'
  <2> SUFFICES ASSUME NEW u \in Users
               PROVE  user_pending_withdrawals'[u] =
                        {id \in 1..(n + 1) : r2[id].user = u /\ r2[id].status = "Pending"}
    BY <1>1 DEF PendingListed
  <2>1. user_pending_withdrawals[u] =
          {id \in 1..n : r[id].user = u /\ r[id].status = "Pending"}
    BY <1>1 DEF RequestBooks, PendingListed
  <2>2. user_pending_withdrawals'[u] =
          IF u = user THEN user_pending_withdrawals[u] \cup {n + 1}
          ELSE user_pending_withdrawals[u]
    BY <1>1 DEF RequestBooks
  <2>3. 1..(n + 1) = (1..n) \cup {n + 1} /\ n + 1 \notin 1..n
    BY <1>1
  <2> HIDE DEF n, r, r2
  <2> QED BY <1>2, <2>1, <2>2, <2>3
<1> QED BY <1>1, <1>2, <1>3, <1>4, <1>5, <1>6, <1>7 DEF RequestBooks

\* The pending requests of a set in a user's list become claimed.
LEMMA RequestsClaimed ==
  ASSUME RequestBooks, NEW user \in Users,
         NEW claimed \in SUBSET user_pending_withdrawals[user],
         UNCHANGED <<next_request_id, requested_at>>,
         withdrawal_requests' =
           [id \in DOMAIN withdrawal_requests |->
              IF id \in claimed THEN AsClaimed(withdrawal_requests[id])
              ELSE withdrawal_requests[id]],
         user_pending_withdrawals' =
           [user_pending_withdrawals EXCEPT ![user] = @ \ claimed],
         total_pending_withdrawal' =
           CheckedSub(total_pending_withdrawal,
             SumFunctionOnSet([id \in claimed |-> withdrawal_requests[id].amount], claimed)),
         received' =
           [received EXCEPT ![user] =
              @ + SumFunctionOnSet([id \in claimed |-> withdrawal_requests[id].amount], claimed)]
  PROVE  RequestBooks'
<1> DEFINE n == next_request_id - 1
           r == withdrawal_requests
           r2 == withdrawal_requests'
           total == SumFunctionOnSet([id \in claimed |-> r[id].amount], claimed)
<1>1. n \in Nat /\ RequestIds = 1..n /\ RequestIds' = 1..n
  BY DEF RequestBooks, RequestIds
<1>2. /\ r \in [1..n -> Requests]
      /\ r2 = [i \in 1..n |-> IF i \in claimed THEN AsClaimed(r[i]) ELSE r[i]]
  BY <1>1 DEF RequestBooks
<1>3. /\ claimed \in SUBSET (1..n)
      /\ \A i \in claimed : r[i].status = "Pending" /\ r[i].user = user
  BY <1>1 DEF RequestBooks, PendingListed
<1>4. r2 \in [1..n -> Requests]
  BY <1>2, AsClaimedType
<1>5. user_pending_withdrawals' \in [Users -> SUBSET RequestIds']
  BY <1>1 DEF RequestBooks
<1>6. /\ total \in Nat
      /\ SumFunction(RequestAmounts(r2, {"Pending"})) \in Nat
      /\ SumFunction(RequestAmounts(r, {"Pending"})) =
           SumFunction(RequestAmounts(r2, {"Pending"})) + total
  <2>1. \A i \in claimed : r[i].status = "Pending"
    BY <1>3
  <2> HIDE DEF n, r, r2
  <2> QED BY <1>1, <1>2, <1>3, <2>1, ClaimSum
<1>7. PendingIsSum' /\ total_pending_withdrawal' \in Nat
  <2>1. total_pending_withdrawal = SumFunction(RequestAmounts(r, {"Pending"}))
    BY DEF RequestBooks, PendingIsSum
  <2>2. total_pending_withdrawal' = CheckedSub(total_pending_withdrawal, total)
    OBVIOUS
  <2>3. total_pending_withdrawal' = SumFunction(RequestAmounts(r2, {"Pending"}))
    <3> HIDE DEF total, r, r2
    <3> QED BY <1>6, <2>1, <2>2 DEF CheckedSub
  <2> QED BY <1>6, <2>3 DEF PendingIsSum
<1>8. PendingListed'
  <2> SUFFICES ASSUME NEW u \in Users
               PROVE  user_pending_withdrawals'[u] =
                        {id \in 1..n : r2[id].user = u /\ r2[id].status = "Pending"}
    BY <1>1 DEF PendingListed
  <2>1. user_pending_withdrawals[u] =
          {id \in 1..n : r[id].user = u /\ r[id].status = "Pending"}
    BY <1>1 DEF RequestBooks, PendingListed
  <2>2. user_pending_withdrawals'[u] =
          IF u = user THEN user_pending_withdrawals[u] \ claimed
          ELSE user_pending_withdrawals[u]
    BY DEF RequestBooks
  <2>3. \A id \in 1..n :
          IF id \in claimed THEN r2[id].status = "Claimed" ELSE r2[id] = r[id]
    BY <1>2, AsClaimedType
  <2> HIDE DEF n, r, r2
  <2> QED BY <1>3, <2>1, <2>2, <2>3
<1>9. received' \in [Users -> Nat]
  <2>1. received \in [Users -> Nat] /\ received' = [received EXCEPT ![user] = @ + total]
    BY DEF RequestBooks
  <2> HIDE DEF total
  <2> QED BY <1>6, <2>1
<1> QED BY <1>1, <1>4, <1>5, <1>7, <1>8, <1>9 DEF RequestBooks

\* The token's part of a stake, an unstake and a transfer.
LEMMA TokenCredited ==
  ASSUME TokenBooks, NEW user \in Users, NEW d \in Int, y_balances[user] + d \in Nat,
         y_balances' = [y_balances EXCEPT ![user] = @ + d], y_supply' = y_supply + d
  PROVE  TokenBooks'
<1>1. y_balances \in [Users -> Nat] /\ y_balances' \in [Users -> Nat] /\ IsFiniteSet(Users)
  BY Finiteness DEF TokenBooks
<1>2. y_balances'[user] = y_balances[user] + d
  BY <1>1
<1>3. \A x \in Users : x # user => y_balances'[x] = y_balances[x]
  BY <1>1
<1>4. user \in Users /\ d \in Int
  OBVIOUS
<1>5. SumFunction(y_balances') = SumFunction(y_balances) + d
  BY ONLY <1>1, <1>2, <1>3, <1>4, SumCredit
<1>6. SumFunction(y_balances') \in Nat
  BY <1>1, SumLedger
<1>7. y_supply = SumFunction(y_balances)
  BY DEF TokenBooks, SupplyIsSum
<1> QED BY <1>1, <1>5, <1>6, <1>7 DEF TokenBooks, SupplyIsSum

LEMMA TokenMinted ==
  ASSUME TokenBooks, NEW user \in Users, NEW amount \in Nat,
         YSCSPR!Mint(Contract, user, amount)
  PROVE  TokenBooks'
<1>1. y_balances' = [y_balances EXCEPT ![user] = @ + amount] /\ y_supply' = y_supply + amount
  BY DEF YSCSPR!Mint, YSCSPR!RawMint
<1>2. y_balances[user] + amount \in Nat /\ amount \in Int
  BY DEF TokenBooks
<1> QED BY <1>1, <1>2, TokenCredited

LEMMA TokenBurned ==
  ASSUME TokenBooks, NEW user \in Users, NEW amount \in Nat,
         YSCSPR!Burn(Contract, user, amount)
  PROVE  TokenBooks'
<1> DEFINE d == 0 - amount
<1>1. y_balances \in [Users -> Nat] /\ y_supply \in Nat /\ d \in Int
  BY DEF TokenBooks
<1>2. /\ amount <= y_balances[user]
      /\ y_balances' = [y_balances EXCEPT ![user] = @ - amount]
      /\ y_supply' = y_supply - amount
  BY DEF YSCSPR!Burn, YSCSPR!RawBurn
<1>3. y_balances' = [y_balances EXCEPT ![user] = @ + d] /\ y_supply' = y_supply + d
  <2>1. y_balances[user] - amount = y_balances[user] + d /\ y_supply - amount = y_supply + d
    BY <1>1
  <2> QED BY <1>2, <2>1
<1>4. y_balances[user] + d \in Nat
  BY <1>1, <1>2
<1> HIDE DEF d
<1> QED BY <1>1, <1>3, <1>4, TokenCredited

LEMMA TokenMoved ==
  ASSUME TokenBooks, NEW from \in Users, NEW to \in Users, NEW amount \in Nat,
         YSCSPR!Transfer(from, to, amount)
  PROVE  TokenBooks'
<1>1. /\ from # to /\ amount <= y_balances[from] /\ y_supply' = y_supply
      /\ y_balances' = [y_balances EXCEPT ![from] = @ - amount, ![to] = @ + amount]
  BY DEF YSCSPR!Transfer, YSCSPR!RawTransfer
<1>2. y_balances \in [Users -> Nat] /\ y_balances' \in [Users -> Nat] /\ IsFiniteSet(Users)
  BY <1>1, Finiteness DEF TokenBooks
<1>3. y_balances'[from] = y_balances[from] - amount
  BY <1>1, <1>2
<1>4. y_balances'[to] = y_balances[to] + amount
  BY <1>1, <1>2
<1>5. \A x \in Users : x # from /\ x # to => y_balances'[x] = y_balances[x]
  BY <1>1, <1>2
<1>6. from \in Users /\ to \in Users /\ from # to /\ amount \in Nat
  BY <1>1
<1>7. SumFunction(y_balances') = SumFunction(y_balances)
  BY ONLY <1>2, <1>3, <1>4, <1>5, <1>6, SumMove
<1> QED BY <1>1, <1>2, <1>7 DEF TokenBooks, SupplyIsSum

(***************************************************************************)
(* Init and the steps.                                                     *)
(***************************************************************************)
LEMMA StakingInit == Init => IInv
<1> SUFFICES ASSUME Init PROVE IInv
  OBVIOUS
<1>1. SumFunction(user_stakes) = 0 /\ DOMAIN user_stakes = Stakes
  <2>1. DOMAIN user_stakes = Stakes /\ \A s \in Stakes : user_stakes[s] = 0
    BY DEF Init
  <2> QED BY <2>1, Finiteness, SumOnZero DEF SumFunction
<1>2. ASSUME NEW v \in Validators
      PROVE  SumFunctionOnSet(user_stakes, Users \X {v}) = 0
  <2>1. IsFiniteSet(Users \X {v}) /\ Users \X {v} \subseteq Stakes
    BY Finiteness
  <2>2. \A s \in Users \X {v} : user_stakes[s] = 0
    BY <2>1 DEF Init
  <2> QED BY <2>1, <2>2, SumOnZero
<1>3. StakeBooks
  BY <1>1, <1>2 DEF Init, StakeBooks, ValidatorTotals, PrincipalCovered, Principal
<1>4. RequestIds = {}
  BY DEF Init, RequestIds
<1>5. SumFunction(RequestAmounts(withdrawal_requests, {"Pending"})) = 0
  <2>1. DOMAIN RequestAmounts(withdrawal_requests, {"Pending"}) = {}
    BY DEF Init, RequestAmounts
  <2> QED BY <2>1, SumOnEmpty DEF SumFunction
<1>6. RequestBooks
  <2>1. /\ withdrawal_requests \in [RequestIds -> Requests]
        /\ requested_at \in [RequestIds -> Nat]
    BY <1>4 DEF Init
  <2> QED BY <1>4, <1>5, <2>1 DEF Init, RequestBooks, PendingIsSum, PendingListed
<1>7. QueueBooks
  BY DEF Init, QueueBooks, IsPendingList
<1>8. TokenBooks
  <2>1. DOMAIN y_balances = Users /\ \A u \in Users : y_balances[u] = 0
    BY DEF Init
  <2>2. SumFunction(y_balances) = 0
    BY <2>1, Finiteness, SumOnZero DEF SumFunction
  <2> QED BY <2>2 DEF Init, TokenBooks, SupplyIsSum
<1>9. AdminBooks /\ purse \in Nat
  BY DEF Init, AdminBooks
<1> QED BY <1>3, <1>6, <1>7, <1>8, <1>9, IInvParts

LEMMA StakeStep ==
  ASSUME IInv, NEW user \in Users, NEW v \in Validators, NEW amount \in StakeAmounts,
         NEW p_score \in Scores, NEW p_avg \in Averages,
         Stake(user, v, amount, p_score, p_avg)
  PROVE  IInv'
<1>1. amount \in Nat /\ MintAmount(amount, p_score, p_avg) \in Nat
  BY StakingAssumption, MintAmountNat
<1>2. StakeBooks'
  <2>1. StakeBooks /\ user_stakes[<<user, v>>] + amount \in Nat
    BY <1>1, IInvParts DEF StakeBooks, Stakes
  <2>2. /\ user_stakes' = [user_stakes EXCEPT ![<<user, v>>] = @ + amount]
        /\ validator_total_stake' = [validator_total_stake EXCEPT ![v] = @ + amount]
        /\ total_staked' = total_staked + amount
    BY DEF Stake
  <2>3. amount \in Int
    BY <1>1
  <2> QED BY ONLY <2>1, <2>2, <2>3, user \in Users, v \in Validators, StakeChange
<1>3. RequestBooks'
  BY IInvParts, SameRequests DEF Stake
<1>4. QueueBooks'
  BY <1>1, IInvParts, AddPendingType DEF Stake, QueueBooks
<1>5. TokenBooks'
  BY <1>1, IInvParts, TokenMinted DEF Stake
<1>6. AdminBooks' /\ purse' \in Nat
  BY <1>1, IInvParts, SameAdmin DEF Stake
<1> QED BY <1>2, <1>3, <1>4, <1>5, <1>6, IInvPartsNext

LEMMA UnstakeStep ==
  ASSUME IInv, NEW user \in Users, NEW v \in Validators, NEW amount \in TokenAmounts,
         NEW era \in Nat, Unstake(user, v, amount, era)
  PROVE  IInv'
<1> DEFINE c == CsprFor(amount)
           d == 0 - c
           request == [user |-> user, amount |-> c,
                       unlock_era |-> (era + UNBONDING_DELAY) % U64, status |-> "Pending"]
<1>1. amount \in Nat /\ c \in Nat /\ d \in Int /\ era \in Nat /\ UNBONDING_DELAY \in Nat
  BY StakingAssumption, CsprForNat DEF IInv
<1>2. StakeBooks /\ RequestBooks /\ QueueBooks /\ TokenBooks /\ AdminBooks /\ purse \in Nat
  BY IInvParts
<1>3. StakeBooks'
  <2>1. /\ user_stakes \in [Stakes -> Nat] /\ <<user, v>> \in Stakes
        /\ validator_total_stake \in [Validators -> Nat]
    BY <1>2 DEF StakeBooks, Stakes
  <2>2. c <= user_stakes[<<user, v>>]
    BY DEF Unstake
  <2>3. user_stakes[<<user, v>>] <= validator_total_stake[v]
    <3>1. IsFiniteSet(Users \X {v}) /\ Users \X {v} \subseteq Stakes
      BY Finiteness
    <3>2. \A s \in Users \X {v} : user_stakes[s] \in Nat
      BY <2>1, <3>1
    <3>3. <<user, v>> \in Users \X {v}
      OBVIOUS
    <3>4. user_stakes[<<user, v>>] <= SumFunctionOnSet(user_stakes, Users \X {v})
      BY <3>1, <3>2, <3>3, SumOnNat
    <3> QED BY <1>2, <3>4 DEF StakeBooks, ValidatorTotals
  <2>4. user_stakes[<<user, v>>] <= total_staked /\ total_staked \in Nat
    <3>1. SumFunction(user_stakes) \in Nat /\ user_stakes[<<user, v>>] <= SumFunction(user_stakes)
      BY <2>1, Finiteness, SumLedger
    <3>2. SumFunction(user_stakes) <= total_staked /\ total_staked \in Nat
      BY <1>2 DEF StakeBooks, PrincipalCovered, Principal
    <3> QED BY <2>1, <3>1, <3>2
  <2>5. /\ user_stakes' =
             [user_stakes EXCEPT ![<<user, v>>] = CheckedSub(@, c)]
        /\ validator_total_stake' = [validator_total_stake EXCEPT ![v] = CheckedSub(@, c)]
        /\ total_staked' = CheckedSub(total_staked, c)
    BY DEF Unstake
  <2> HIDE DEF c
  <2>6. ASSUME NEW x \in Nat, c <= x PROVE CheckedSub(x, c) = x + d
    BY <1>1, <2>6 DEF CheckedSub
  <2>7. /\ CheckedSub(user_stakes[<<user, v>>], c) = user_stakes[<<user, v>>] + d
        /\ CheckedSub(validator_total_stake[v], c) = validator_total_stake[v] + d
        /\ CheckedSub(total_staked, c) = total_staked + d
    <3>1. user_stakes[<<user, v>>] \in Nat /\ validator_total_stake[v] \in Nat
      BY <2>1
    <3>2. c <= validator_total_stake[v] /\ c <= total_staked
      BY <1>1, <2>2, <2>3, <2>4, <3>1
    <3> HIDE DEF d
    <3> QED BY <2>2, <2>4, <2>6, <3>1, <3>2
  <2>8. /\ user_stakes' = [user_stakes EXCEPT ![<<user, v>>] = @ + d]
        /\ validator_total_stake' = [validator_total_stake EXCEPT ![v] = @ + d]
        /\ total_staked' = total_staked + d
        /\ user_stakes[<<user, v>>] + d \in Nat
    BY <1>1, <2>1, <2>2, <2>5, <2>7
  <2> HIDE DEF d
  <2> QED BY ONLY <1>1, <1>2, <2>8, user \in Users, v \in Validators, StakeChange
<1>4. RequestBooks'
  <2>1. /\ request \in Requests
        /\ request.user = user /\ request.status = "Pending" /\ request.amount = c
    BY <1>1, UnlockNat DEF Requests
  <2>2. network_era \in Nat
    BY <1>2 DEF AdminBooks
  <2>3. /\ next_request_id' = next_request_id + 1
        /\ withdrawal_requests' =
             [i \in 1..next_request_id |->
                IF i # next_request_id THEN withdrawal_requests[i] ELSE request]
        /\ requested_at' =
             [i \in 1..next_request_id |->
                IF i # next_request_id THEN requested_at[i] ELSE network_era]
        /\ user_pending_withdrawals' =
             [user_pending_withdrawals EXCEPT ![user] = @ \cup {next_request_id}]
        /\ total_pending_withdrawal' = total_pending_withdrawal + request.amount
        /\ UNCHANGED received
    BY <2>1 DEF Unstake
  <2> HIDE DEF request
  <2> QED BY <1>2, <2>1, <2>2, <2>3, RequestMade
<1>5. QueueBooks'
  BY <1>1, <1>2, AddPendingType DEF Unstake, QueueBooks
<1>6. TokenBooks'
  BY <1>1, <1>2, TokenBurned DEF Unstake
<1>7. AdminBooks' /\ purse' \in Nat
  BY <1>2, SameAdmin DEF Unstake
<1> QED BY <1>3, <1>4, <1>5, <1>6, <1>7, IInvPartsNext

LEMMA ClaimStep ==
  ASSUME IInv, NEW user \in Users, NEW era, Claim(user, era)
  PROVE  IInv'
<1> DEFINE claimed == Maturing(user, era)
           total == SumFunctionOnSet([id \in claimed |-> withdrawal_requests[id].amount], claimed)
<1>1. StakeBooks /\ RequestBooks /\ QueueBooks /\ TokenBooks /\ AdminBooks /\ purse \in Nat
  BY IInvParts
<1>2. claimed \in SUBSET user_pending_withdrawals[user]
  BY DEF Maturing
<1>3. RequestBooks'
  BY <1>1, <1>2, RequestsClaimed DEF Claim
<1>4. total \in Nat
  <2>1. claimed \in SUBSET RequestIds
    BY <1>1, <1>2 DEF RequestBooks
  <2>2. RequestIds = 1..(next_request_id - 1) /\ next_request_id - 1 \in Nat
    BY <1>1 DEF RequestBooks, RequestIds
  <2>3. IsFiniteSet(claimed)
    BY <2>1, <2>2, Finiteness, FS_Subset
  <2>4. \A id \in claimed : withdrawal_requests[id].amount \in Nat
    BY <1>1, <2>1 DEF RequestBooks, Requests
  <2> HIDE DEF claimed
  <2>5. \A id \in claimed : [i \in claimed |-> withdrawal_requests[i].amount][id] \in Nat
    BY <2>4
  <2> QED BY <2>3, <2>5, SumOnNat
<1>5. purse' \in Nat
  <2>1. total <= purse /\ purse' = purse - total
    BY DEF Claim
  <2> HIDE DEF total
  <2> QED BY <1>1, <1>4, <2>1
<1>6. StakeBooks' /\ QueueBooks' /\ TokenBooks' /\ AdminBooks'
  <2>1. UNCHANGED <<stakeVars, delegateVars, tokenVars, adminVars>>
    BY DEF Claim
  <2> QED BY <1>1, <2>1, SameStakes, SameQueues, SameToken, SameAdmin
<1> QED BY <1>3, <1>5, <1>6, IInvPartsNext

LEMMA TransferStep ==
  ASSUME IInv, NEW from \in Users, NEW to \in Users, NEW amount \in TokenAmounts,
         TransferYSCSPR(from, to, amount)
  PROVE  IInv'
<1>1. TokenBooks'
  <2>1. TokenBooks /\ amount \in Nat /\ YSCSPR!Transfer(from, to, amount)
    BY StakingAssumption, IInvParts DEF TransferYSCSPR
  <2> QED BY <2>1, TokenMoved
<1>2. StakeBooks' /\ RequestBooks' /\ QueueBooks' /\ AdminBooks' /\ purse' \in Nat
  <2>1. UNCHANGED <<stakeVars, requestVars, delegateVars, adminVars, purse>>
    BY DEF TransferYSCSPR
  <2> QED BY <2>1, IInvParts, SameStakes, SameRequests, SameQueues, SameAdmin
<1> QED BY <1>1, <1>2, IInvPartsNext

\* A harvest only raises the pool: the fee is at most the reward.
LEMMA HarvestStep ==
  ASSUME IInv, NEW caller, NEW amount \in Nat, NEW era \in Nat,
         HarvestRewards(caller, amount, era)
  PROVE  IInv' /\ total_staked' >= total_staked
<1> DEFINE rewards == amount - (total_staked + total_pending_withdrawal)
           fee == (rewards * PROTOCOL_FEE_BPS) \div BASIS_POINTS
<1>1. /\ StakeBooks /\ RequestBooks /\ amount \in Nat
      /\ total_staked \in Nat /\ total_pending_withdrawal \in Nat /\ era \in Nat
  BY IInvParts DEF StakeBooks, RequestBooks
<1>2. total_staked' \in Nat /\ total_staked' >= total_staked
  <2>1. CASE amount <= total_staked + total_pending_withdrawal
    BY <1>1, <2>1 DEF HarvestRewards
  <2>2. CASE ~(amount <= total_staked + total_pending_withdrawal)
    <3>1. rewards \in Nat
      BY <1>1, <2>2
    <3>2. total_staked' = total_staked + (rewards - fee)
      BY <2>2 DEF HarvestRewards
    <3>3. fee \in 0..rewards
      <4> HIDE DEF rewards
      <4> QED BY <3>1, FeeAtMostReward
    <3> HIDE DEF rewards, fee
    <3> QED BY <1>1, <3>1, <3>2, <3>3
  <2> QED BY <2>1, <2>2
<1>3. StakeBooks'
  <2>1. UNCHANGED <<user_stakes, validator_total_stake>>
    BY DEF HarvestRewards
  <2>2. SumFunction(user_stakes) \in Nat
    BY <1>1, Finiteness, SumLedger DEF StakeBooks
  <2>3. PrincipalCovered'
    BY <1>1, <1>2, <2>1, <2>2 DEF StakeBooks, PrincipalCovered, Principal
  <2> QED BY <1>1, <1>2, <2>1, <2>3 DEF StakeBooks, ValidatorTotals
<1>4. RequestBooks' /\ QueueBooks' /\ TokenBooks' /\ purse' \in Nat
  <2>1. UNCHANGED <<requestVars, delegateVars, tokenVars, purse>>
    BY DEF HarvestRewards
  <2> QED BY <2>1, IInvParts, SameRequests, SameQueues, SameToken
<1>5. AdminBooks'
  BY <1>1, IInvParts DEF HarvestRewards, AdminBooks
<1> QED BY <1>2, <1>3, <1>4, <1>5, IInvPartsNext

\* The steps that touch the delegation queues, and those that touch only the
\* purse, the appointments and the era.
LEMMA QueueStep ==
  ASSUME IInv, NEW caller, NEW v \in Validators, NEW amount \in Nat,
         \/ WithdrawForDelegation(caller, v, amount)
         \/ ConfirmDelegation(caller, v, amount)
         \/ ConfirmUndelegation(caller, v, amount)
  PROVE  IInv'
<1> USE DEF WithdrawForDelegation, ConfirmDelegation, ConfirmUndelegation
<1>1. StakeBooks' /\ RequestBooks' /\ TokenBooks' /\ AdminBooks'
  <2>1. UNCHANGED <<stakeVars, requestVars, tokenVars, adminVars>>
    OBVIOUS
  <2> QED BY <2>1, IInvParts, SameStakes, SameRequests, SameToken, SameAdmin
<1>2. amount \in Nat /\ QueueBooks /\ purse \in Nat
  BY IInvParts
<1>3. purse' \in Nat
  BY <1>2
<1>4. QueueBooks'
  <2>1. CASE ConfirmDelegation(caller, v, amount)
    BY <1>2, <2>1, ConfirmPendingType DEF QueueBooks
  <2>2. CASE ConfirmUndelegation(caller, v, amount)
    BY <1>2, <2>2, ConfirmPendingType DEF QueueBooks, CheckedSub
  <2>3. CASE UNCHANGED delegateVars
    BY <1>2, <2>3, SameQueues
  <2> QED BY <2>1, <2>2, <2>3
<1> QED BY <1>1, <1>3, <1>4, IInvPartsNext

LEMMA DepositStep ==
  ASSUME IInv, NEW caller, NEW amount \in Nat,
         DepositFromUndelegation(caller, amount)
  PROVE  IInv'
<1>1. StakeBooks' /\ RequestBooks' /\ QueueBooks' /\ TokenBooks' /\ AdminBooks'
  <2>1. UNCHANGED <<stakeVars, requestVars, delegateVars, tokenVars, adminVars>>
    BY DEF DepositFromUndelegation
  <2> QED BY <2>1, IInvParts, SameStakes, SameRequests, SameQueues, SameToken, SameAdmin
<1>2. purse' \in Nat
  BY IInvParts DEF DepositFromUndelegation
<1> QED BY <1>1, <1>2, IInvPartsNext

LEMMA AdminStep ==
  ASSUME IInv, OwnerNext \/ NewEra
  PROVE  IInv'
<1>1. StakeBooks' /\ RequestBooks' /\ QueueBooks' /\ TokenBooks' /\ purse' \in Nat
  <2>1. UNCHANGED <<stakeVars, requestVars, delegateVars, tokenVars, purse>>
    BY DEF OwnerNext, SetKeeper, NewEra
  <2> QED BY <2>1, IInvParts, SameStakes, SameRequests, SameQueues, SameToken
<1>2. AdminBooks'
  BY IInvParts DEF OwnerNext, SetKeeper, NewEra, AdminBooks
<1> QED BY <1>1, <1>2, IInvPartsNext

LEMMA StakingStep == IInv /\ [Next]_vars => IInv'
<1> SUFFICES ASSUME IInv, [Next]_vars PROVE IInv'
  OBVIOUS
<1>1. CASE UserNext
  <2>1. PICK user \in Users :
          \/ \E v \in Validators, amount \in StakeAmounts, p_score \in Scores, p_avg \in Averages :
               Stake(user, v, amount, p_score, p_avg)
          \/ \E v \in Validators, amount \in TokenAmounts, era \in EraArgs :
               Unstake(user, v, amount, era)
          \/ \E era \in EraArgs : Claim(user, era)
          \/ \E to \in Users, amount \in TokenAmounts : TransferYSCSPR(user, to, amount)
    BY <1>1 DEF UserNext
  <2>2. \A era \in EraArgs : era \in Nat
    BY EraArgsNat DEF IInv
  <2> QED BY <2>1, <2>2, StakeStep, UnstakeStep, ClaimStep, TransferStep
<1>2. CASE KeeperNext
  <2>1. PICK caller \in Keepers \cup {Owner}, amount \in KeeperAmounts :
          \/ \E era \in EraArgs : HarvestRewards(caller, amount, era)
          \/ \E v \in Validators :
               \/ WithdrawForDelegation(caller, v, amount)
               \/ ConfirmDelegation(caller, v, amount)
               \/ ConfirmUndelegation(caller, v, amount)
          \/ DepositFromUndelegation(caller, amount)
    BY <1>2 DEF KeeperNext
  <2>2. \A era \in EraArgs : era \in Nat
    BY EraArgsNat DEF IInv
  <2>3. KeeperAmounts \subseteq Nat
    BY StakingAssumption
  <2> QED BY <2>1, <2>2, <2>3, HarvestStep, QueueStep, DepositStep
<1>3. CASE OwnerNext \/ NewEra
  BY <1>3, AdminStep
<1>4. CASE UNCHANGED vars
  <2>1. UNCHANGED <<stakeVars, requestVars, delegateVars, tokenVars, adminVars, purse>>
    BY <1>4 DEF vars
  <2> QED BY <2>1, IInvParts, IInvPartsNext, SameStakes, SameRequests, SameQueues,
             SameToken, SameAdmin
<1> QED BY <1>1, <1>2, <1>3, <1>4 DEF Next

(***************************************************************************)
(* The books are right in every reachable state.                           *)
(***************************************************************************)
LEMMA StakingInvariant == Spec => []IInv
BY StakingInit, StakingStep, PTL DEF Spec

\* Every variable keeps its type; in particular no amount goes below zero.
THEOREM StakingTypes == Spec => []TypeOK
<1>1. IInv => TypeOK
  BY DEF IInv
<1> QED BY <1>1, StakingInvariant, PTL

\* Each validator's total accounts for what users have staked with it,
\* whatever calls users and keepers make in whatever order.
THEOREM ValidatorStakesAccounted == Spec => []ValidatorTotals
<1>1. IInv => ValidatorTotals
  BY DEF IInv
<1> QED BY <1>1, StakingInvariant, PTL

\* The pool never falls below what users have staked and not taken back.
THEOREM StakesAccounted == Spec => []PrincipalCovered
<1>1. IInv => PrincipalCovered
  BY DEF IInv
<1> QED BY <1>1, StakingInvariant, PTL

\* The pending total is the sum of the pending requests: a claim takes out
\* what its request put in, once.
THEOREM PendingAccounted == Spec => []PendingIsSum
<1>1. IInv => PendingIsSum
  BY DEF IInv
<1> QED BY <1>1, StakingInvariant, PTL

\* A user's list holds exactly that user's pending requests: no claim misses
\* one or is paid twice.
THEOREM RequestsAccounted == Spec => []PendingListed
<1>1. IInv => PendingListed
  BY DEF IInv
<1> QED BY <1>1, StakingInvariant, PTL

(***************************************************************************)
(* The exchange rate: what a step does to the pool and to the supply.      *)
(***************************************************************************)
\* A common factor cancels.
LEMMA CancelFactor ==
  ASSUME NEW a \in Nat, NEW b \in Nat, NEW k \in Nat \ {0}, a * k <= b * k
  PROVE  a <= b
<1>1. ~(a <= b) => b + 1 <= a
  OBVIOUS
<1>2. b + 1 <= a => (b + 1) * k <= a * k
  OBVIOUS
<1>3. (b + 1) * k = b * k + k
  OBVIOUS
<1>4. a * k \in Nat /\ b * k \in Nat
  OBVIOUS
<1> QED BY <1>1, <1>2, <1>3, <1>4

LEMMA TimesMonotone ==
  ASSUME NEW a \in Nat, NEW b \in Nat, NEW k \in Nat, a <= b
  PROVE  a * k <= b * k
OBVIOUS

LEMMA DivAtLeast ==
  ASSUME NEW a \in Nat, NEW b \in Nat \ {0}, NEW q \in Nat, a >= q * b
  PROVE  a \div b >= q
<1> DEFINE d == a \div b
<1>1. d \in Nat /\ a < d * b + b
  OBVIOUS
<1> HIDE DEF d
<1>2. ~(d >= q) => d + 1 <= q
  BY <1>1
<1>3. d + 1 <= q => (d + 1) * b <= q * b
  BY <1>1
<1>4. (d + 1) * b = d * b + b
  BY <1>1
<1>5. d * b \in Nat /\ q * b \in Nat
  BY <1>1
<1>6. d >= q
  BY <1>1, <1>2, <1>3, <1>4, <1>5
<1> QED BY <1>6 DEF d

\* What is minted is at most the stake at the highest multiplier.
LEMMA MintBounded ==
  ASSUME NEW amount \in Nat, NEW p_score \in Nat, NEW p_avg \in Nat
  PROVE  MintAmount(amount, p_score, p_avg) * BASIS_POINTS <= amount * MAX_MULTIPLIER
<1> DEFINE m == CalculateMultiplier(p_score, p_avg)
<1>1. /\ BASIS_POINTS \in Nat \ {0} /\ MIN_MULTIPLIER \in Nat /\ MAX_MULTIPLIER \in Nat
      /\ MIN_MULTIPLIER <= MAX_MULTIPLIER /\ BASIS_POINTS <= MAX_MULTIPLIER
  BY StakingAssumption
<1>2. m \in Nat /\ m <= MAX_MULTIPLIER
  <2>1. p_score * BASIS_POINTS \in Nat
    BY <1>1
  <2>2. p_avg # 0 => (p_score * BASIS_POINTS) \div p_avg \in Nat
    BY <2>1, DivNat
  <2> QED BY <1>1, <2>2 DEF CalculateMultiplier
<1> HIDE DEF m
<1>3. amount * m \in Nat /\ amount * m <= amount * MAX_MULTIPLIER
  BY <1>1, <1>2
<1>4. ((amount * m) \div BASIS_POINTS) * BASIS_POINTS <= amount * m
      /\ (amount * m) \div BASIS_POINTS \in Nat
  BY <1>1, <1>3, DivNat
<1> DEFINE q == (amount * m) \div BASIS_POINTS
<1>5. q * BASIS_POINTS <= amount * MAX_MULTIPLIER
  <2> HIDE DEF q
  <2>1. q * BASIS_POINTS \in Nat /\ amount * MAX_MULTIPLIER \in Nat
    BY <1>1, <1>4 DEF q
  <2>2. q * BASIS_POINTS <= amount * m
    BY <1>4 DEF q
  <2> QED BY <1>3, <2>1, <2>2
<1> QED BY <1>5 DEF MintAmount, m

LEMMA RateNat ==
  ASSUME NEW s \in Nat, NEW y \in Nat
  PROVE  /\ ExchangeRate(s, y) \in Nat
         /\ y # 0 => ExchangeRate(s, y) * y <= s * MOTES_PER_CSPR
<1>1. MOTES_PER_CSPR \in Nat /\ s * MOTES_PER_CSPR \in Nat
  BY StakingAssumption
<1> QED BY <1>1, DivNat DEF ExchangeRate

\* The pool and the supply grow by a stake, shrink by an unstake, and else the
\* pool only grows.
LEMMA PoolStep ==
  ASSUME IInv, [Next]_vars
  PROVE  \/ y_supply' = y_supply /\ total_staked' \in Nat /\ total_staked' >= total_staked
         \/ \E a \in Nat, m \in Nat :
              /\ total_staked' = total_staked + a /\ y_supply' = y_supply + m
              /\ m * BASIS_POINTS <= a * MAX_MULTIPLIER
         \/ \E c \in Nat, t \in Nat :
              /\ t # 0 /\ t <= y_supply /\ c <= total_staked
              /\ total_staked' = total_staked - c /\ y_supply' = y_supply - t
              /\ c * MOTES_PER_CSPR <= t * ExchangeRate(total_staked, y_supply)
<1>1. /\ total_staked \in Nat /\ y_supply \in Nat /\ y_balances \in [Users -> Nat]
      /\ y_supply = SumFunction(y_balances)
  BY IInvParts DEF StakeBooks, TokenBooks, SupplyIsSum
<1>2. ASSUME NEW user \in Users, NEW v \in Validators, NEW amount \in StakeAmounts,
             NEW p_score \in Scores, NEW p_avg \in Averages,
             Stake(user, v, amount, p_score, p_avg)
      PROVE  \E a \in Nat, m \in Nat :
               /\ total_staked' = total_staked + a /\ y_supply' = y_supply + m
               /\ m * BASIS_POINTS <= a * MAX_MULTIPLIER
  <2>1. amount \in Nat /\ p_score \in Nat /\ p_avg \in Nat
    BY StakingAssumption
  <2>2. total_staked' = total_staked + amount
        /\ y_supply' = y_supply + MintAmount(amount, p_score, p_avg)
    BY <1>2 DEF Stake, YSCSPR!Mint, YSCSPR!RawMint
  <2>3. MintAmount(amount, p_score, p_avg) \in Nat
        /\ MintAmount(amount, p_score, p_avg) * BASIS_POINTS <= amount * MAX_MULTIPLIER
    BY <2>1, MintAmountNat, MintBounded
  <2> QED BY <2>1, <2>2, <2>3
<1>3. ASSUME NEW user \in Users, NEW v \in Validators, NEW amount \in TokenAmounts,
             NEW era \in EraArgs, Unstake(user, v, amount, era)
      PROVE  \E c \in Nat, t \in Nat :
               /\ t # 0 /\ t <= y_supply /\ c <= total_staked
               /\ total_staked' = total_staked - c /\ y_supply' = y_supply - t
               /\ c * MOTES_PER_CSPR <= t * ExchangeRate(total_staked, y_supply)
  <2> DEFINE c == CsprFor(amount)
             rate == ExchangeRate(total_staked, y_supply)
  <2>1. amount \in Nat /\ amount # 0 /\ c \in Nat
    BY <1>3, StakingAssumption, CsprForNat DEF IInv, Unstake
  <2>2. amount <= y_balances[user] /\ y_supply' = y_supply - amount
    BY <1>3 DEF Unstake, YSCSPR!Burn, YSCSPR!RawBurn
  <2>3. y_balances[user] <= y_supply /\ y_balances[user] \in Nat
    BY <1>1, Finiteness, SumLedger
  <2>4. amount <= y_supply
    BY <1>1, <2>1, <2>2, <2>3
  <2>5. c <= total_staked \div 10 /\ total_staked' = CheckedSub(total_staked, c)
    BY <1>3 DEF Unstake
  <2>6. c * MOTES_PER_CSPR <= amount * rate
    <3>1. rate \in Nat
      BY <1>1, RateNat
    <3> HIDE DEF rate
    <3>2. amount * rate \in Nat
      BY <2>1, <3>1
    <3>3. ((amount * rate) \div MOTES_PER_CSPR) * MOTES_PER_CSPR <= amount * rate
      BY <3>2, StakingAssumption, DivNat
    <3> QED BY <3>3 DEF CsprFor, rate
  <2> HIDE DEF c
  <2>7. c <= total_staked
    BY <1>1, <2>1, <2>5
  <2>8. total_staked' = total_staked - c
    BY <2>5, <2>7 DEF CheckedSub
  <2> QED BY <2>1, <2>2, <2>4, <2>6, <2>7, <2>8
<1>4. CASE UserNext
  <2>1. CASE UNCHANGED <<stakeVars, tokenVars>>
    BY <1>1, <2>1 DEF stakeVars, tokenVars
  <2>2. PICK user \in Users :
          \/ \E v \in Validators, amount \in StakeAmounts, p_score \in Scores, p_avg \in Averages :
               Stake(user, v, amount, p_score, p_avg)
          \/ \E v \in Validators, amount \in TokenAmounts, era \in EraArgs :
               Unstake(user, v, amount, era)
          \/ \E era \in EraArgs : Claim(user, era)
          \/ \E to \in Users, amount \in TokenAmounts : TransferYSCSPR(user, to, amount)
    BY <1>4 DEF UserNext
  <2>3. CASE \E to \in Users, amount \in TokenAmounts : TransferYSCSPR(user, to, amount)
    <3>1. y_supply' = y_supply /\ total_staked' = total_staked
      BY <2>3 DEF TransferYSCSPR, YSCSPR!Transfer, YSCSPR!RawTransfer, stakeVars
    <3> QED BY <1>1, <3>1
  <2>4. CASE \E era \in EraArgs : Claim(user, era)
    BY <2>1, <2>4 DEF Claim
  <2> QED BY <1>2, <1>3, <2>2, <2>3, <2>4
<1>5. CASE KeeperNext
  <2>1. PICK caller \in Keepers \cup {Owner}, amount \in KeeperAmounts :
          \/ \E era \in EraArgs : HarvestRewards(caller, amount, era)
          \/ UNCHANGED <<stakeVars, tokenVars>>
    BY <1>5 DEF KeeperNext, WithdrawForDelegation, ConfirmDelegation, ConfirmUndelegation,
                DepositFromUndelegation
  <2>2. CASE \E era \in EraArgs : HarvestRewards(caller, amount, era)
    <3>1. PICK era \in EraArgs : HarvestRewards(caller, amount, era)
      BY <2>2
    <3>2. IInv' /\ total_staked' >= total_staked
      <4>1. amount \in Nat /\ era \in Nat
        BY StakingAssumption, EraArgsNat DEF IInv
      <4> QED BY <3>1, <4>1, HarvestStep
    <3>3. total_staked' \in Nat /\ y_supply' = y_supply
      BY <3>1, <3>2, IInvPartsNext DEF StakeBooks, HarvestRewards, tokenVars
    <3> QED BY <3>2, <3>3
  <2>3. CASE UNCHANGED <<stakeVars, tokenVars>>
    BY <1>1, <2>3 DEF stakeVars, tokenVars
  <2> QED BY <2>1, <2>2, <2>3
<1>6. CASE OwnerNext \/ NewEra \/ UNCHANGED vars
  BY <1>1, <1>6 DEF OwnerNext, SetKeeper, NewEra, vars, stakeVars, tokenVars
<1> QED BY <1>4, <1>5, <1>6 DEF Next

\* A share of a pool, rounded down, leaves the rest no worse off.
LEMMA ShareFloor ==
  ASSUME NEW s \in Nat, NEW y \in Nat, NEW c \in Nat, NEW t \in Nat,
         t # 0, t <= y, c <= s, y * BASIS_POINTS <= s * MAX_MULTIPLIER,
         c * MOTES_PER_CSPR <= t * ExchangeRate(s, y)
  PROVE  (y - t) * BASIS_POINTS <= (s - c) * MAX_MULTIPLIER
<1> DEFINE rate == ExchangeRate(s, y)
           k == y - t
           r == s - c
<1>1. /\ BASIS_POINTS \in Nat /\ MAX_MULTIPLIER \in Nat /\ MOTES_PER_CSPR \in Nat \ {0}
      /\ y # 0 /\ k \in Nat /\ r \in Nat /\ k + t = y /\ r + c = s
  BY StakingAssumption
<1>2. rate \in Nat /\ rate * y <= s * MOTES_PER_CSPR
  BY <1>1, RateNat
<1> HIDE DEF rate, k, r
<1>3. c * y <= t * s
  <2>1. (c * MOTES_PER_CSPR) * y <= (t * rate) * y
    BY <1>1, <1>2 DEF rate
  <2>2. t * (rate * y) <= t * (s * MOTES_PER_CSPR)
    BY <1>1, <1>2
  <2>3. (c * MOTES_PER_CSPR) * y = (c * y) * MOTES_PER_CSPR
        /\ (t * rate) * y = t * (rate * y)
        /\ t * (s * MOTES_PER_CSPR) = (t * s) * MOTES_PER_CSPR
    BY <1>1, <1>2
  <2>4. (c * y) * MOTES_PER_CSPR <= (t * s) * MOTES_PER_CSPR
    <3>1. /\ (c * y) * MOTES_PER_CSPR \in Nat /\ (t * s) * MOTES_PER_CSPR \in Nat
          /\ t * (rate * y) \in Nat
      BY <1>1, <1>2
    <3> QED BY <2>1, <2>2, <2>3, <3>1
  <2>5. c * y \in Nat /\ t * s \in Nat
    OBVIOUS
  <2> QED BY <1>1, <2>4, <2>5, CancelFactor
<1>4. k * s <= r * y
  <2>1. k * s + t * s = y * s /\ r * y + c * y = s * y
    <3>1. k * s + t * s = (k + t) * s /\ r * y + c * y = (r + c) * y
      BY <1>1
    <3> QED BY <1>1, <3>1
  <2>2. y * s = s * y /\ k * s \in Nat /\ t * s \in Nat /\ r * y \in Nat /\ c * y \in Nat
    BY <1>1
  <2> QED BY <1>3, <2>1, <2>2
<1>5. (k * BASIS_POINTS) * y <= (r * MAX_MULTIPLIER) * y
  <2>1. k * (y * BASIS_POINTS) <= k * (s * MAX_MULTIPLIER)
    <3>1. y * BASIS_POINTS \in Nat /\ s * MAX_MULTIPLIER \in Nat
      BY <1>1
    <3> QED BY <1>1, <3>1
  <2>2. (k * s) * MAX_MULTIPLIER <= (r * y) * MAX_MULTIPLIER
    <3>1. k * s \in Nat /\ r * y \in Nat
      BY <1>1
    <3> QED BY <1>1, <1>4, <3>1
  <2>3. /\ (k * BASIS_POINTS) * y = k * (y * BASIS_POINTS)
        /\ k * (s * MAX_MULTIPLIER) = (k * s) * MAX_MULTIPLIER
        /\ (r * y) * MAX_MULTIPLIER = (r * MAX_MULTIPLIER) * y
    BY <1>1
  <2>4. /\ k * (y * BASIS_POINTS) \in Nat /\ (k * s) * MAX_MULTIPLIER \in Nat
        /\ (r * y) * MAX_MULTIPLIER \in Nat
    BY <1>1
  <2> QED BY <2>1, <2>2, <2>3, <2>4
<1>6. k * BASIS_POINTS \in Nat /\ r * MAX_MULTIPLIER \in Nat
  BY <1>1
<1>7. k * BASIS_POINTS <= r * MAX_MULTIPLIER
  BY <1>1, <1>5, <1>6, CancelFactor
<1> QED BY <1>7 DEF k, r

\* The exchange rate has a floor: no order of stakes, unstakes, claims,
\* transfers and harvests lets the supply outgrow the pool at the highest
\* multiplier.
THEOREM RateHasFloor == Spec => []RateFloor
<1>1. Init => RateFloor
  <2>1. BASIS_POINTS \in Nat /\ MAX_MULTIPLIER \in Nat
    BY StakingAssumption
  <2> QED BY <2>1 DEF Init, RateFloor
<1>2. ASSUME IInv, RateFloor, [Next]_vars PROVE RateFloor'
  <2>1. /\ total_staked \in Nat /\ y_supply \in Nat
        /\ BASIS_POINTS \in Nat /\ MAX_MULTIPLIER \in Nat
        /\ y_supply * BASIS_POINTS <= total_staked * MAX_MULTIPLIER
    BY <1>2, IInvParts, StakingAssumption DEF StakeBooks, TokenBooks, RateFloor
  <2>2. CASE y_supply' = y_supply /\ total_staked' \in Nat /\ total_staked' >= total_staked
    <3>1. PICK s \in Nat : s = total_staked' /\ s >= total_staked
      BY <2>2
    <3>2. total_staked * MAX_MULTIPLIER <= s * MAX_MULTIPLIER
      BY <2>1, <3>1, TimesMonotone
    <3>3. /\ total_staked * MAX_MULTIPLIER \in Nat /\ s * MAX_MULTIPLIER \in Nat
          /\ y_supply * BASIS_POINTS \in Nat
      BY <2>1
    <3>4. y_supply * BASIS_POINTS <= s * MAX_MULTIPLIER
      BY <2>1, <3>2, <3>3
    <3> QED BY <2>2, <3>1, <3>4 DEF RateFloor
  <2>3. ASSUME NEW a \in Nat, NEW m \in Nat,
               total_staked' = total_staked + a, y_supply' = y_supply + m,
               m * BASIS_POINTS <= a * MAX_MULTIPLIER
        PROVE  RateFloor'
    <3>1. /\ (y_supply + m) * BASIS_POINTS = y_supply * BASIS_POINTS + m * BASIS_POINTS
          /\ (total_staked + a) * MAX_MULTIPLIER = total_staked * MAX_MULTIPLIER + a * MAX_MULTIPLIER
      BY <2>1
    <3>2. /\ y_supply * BASIS_POINTS \in Nat /\ m * BASIS_POINTS \in Nat
          /\ total_staked * MAX_MULTIPLIER \in Nat /\ a * MAX_MULTIPLIER \in Nat
      BY <2>1
    <3> QED BY <2>1, <2>3, <3>1, <3>2 DEF RateFloor
  <2>4. ASSUME NEW c \in Nat, NEW t \in Nat, t # 0, t <= y_supply, c <= total_staked,
               total_staked' = total_staked - c, y_supply' = y_supply - t,
               c * MOTES_PER_CSPR <= t * ExchangeRate(total_staked, y_supply)
        PROVE  RateFloor'
    BY <2>1, <2>4, ShareFloor DEF RateFloor
  <2> QED BY <1>2, <2>2, <2>3, <2>4, PoolStep
<1> QED BY <1>1, <1>2, StakingInvariant, PTL DEF Spec

\* While no ySCSPR is minted the rate never falls, through every rounding.
THEOREM RateKept == Spec => RateFallsOnlyByMint
<1> DEFINE A == y_supply' <= y_supply /\ y_supply' # 0 =>
                  ExchangeRate(total_staked', y_supply') >= ExchangeRate(total_staked, y_supply)
<1>1. ASSUME NEW s \in Nat, NEW y \in Nat, NEW s2 \in Nat, NEW y2 \in Nat \ {0}, y # 0,
             s2 * MOTES_PER_CSPR >= ExchangeRate(s, y) * y2
      PROVE  ExchangeRate(s2, y2) >= ExchangeRate(s, y)
  <2>1. ExchangeRate(s, y) \in Nat /\ s2 * MOTES_PER_CSPR \in Nat
    BY RateNat, StakingAssumption
  <2> DEFINE q == ExchangeRate(s, y)
  <2>2. (s2 * MOTES_PER_CSPR) \div y2 >= q
    <3> HIDE DEF q
    <3> QED BY <1>1, <2>1, DivAtLeast DEF q
  <2>3. ExchangeRate(s2, y2) = (s2 * MOTES_PER_CSPR) \div y2
    BY DEF ExchangeRate
  <2> QED BY <2>2, <2>3
<1>2. ASSUME NEW s \in Nat, NEW y \in Nat \ {0}, NEW s2 \in Nat, s2 >= s
      PROVE  ExchangeRate(s2, y) >= ExchangeRate(s, y)
  <2>1. MOTES_PER_CSPR \in Nat /\ ExchangeRate(s, y) \in Nat
        /\ ExchangeRate(s, y) * y <= s * MOTES_PER_CSPR
    BY StakingAssumption, RateNat
  <2>2. s * MOTES_PER_CSPR <= s2 * MOTES_PER_CSPR
    BY <1>2, <2>1, TimesMonotone
  <2>3. s * MOTES_PER_CSPR \in Nat /\ s2 * MOTES_PER_CSPR \in Nat /\ ExchangeRate(s, y) * y \in Nat
    BY <2>1
  <2>4. s2 * MOTES_PER_CSPR >= ExchangeRate(s, y) * y
    BY <2>1, <2>2, <2>3
  <2> QED BY <1>1, <2>4
<1>3. ASSUME NEW s \in Nat, NEW y \in Nat, NEW c \in Nat, NEW t \in Nat,
             c <= s, t < y, c * MOTES_PER_CSPR <= t * ExchangeRate(s, y)
      PROVE  ExchangeRate(s - c, y - t) >= ExchangeRate(s, y)
  <2> DEFINE q == ExchangeRate(s, y)
             r == s - c
             k == y - t
  <2>a. r \in Nat /\ k \in Nat \ {0} /\ r + c = s /\ k + t = y /\ y # 0
    <3> HIDE DEF q
    <3> QED BY <1>3
  <2>b. MOTES_PER_CSPR \in Nat
    BY StakingAssumption
  <2>c. q \in Nat /\ q * y <= s * MOTES_PER_CSPR
    BY <2>a, RateNat
  <2>1. /\ MOTES_PER_CSPR \in Nat /\ q \in Nat /\ q * y <= s * MOTES_PER_CSPR
        /\ r \in Nat /\ k \in Nat \ {0} /\ r + c = s /\ k + t = y /\ y # 0
    BY <2>a, <2>b, <2>c
  <2>2. c * MOTES_PER_CSPR <= t * q
    BY <1>3
  <2> HIDE DEF q, r, k
  <2>3. s * MOTES_PER_CSPR = r * MOTES_PER_CSPR + c * MOTES_PER_CSPR /\ q * y = q * k + t * q
    <3>1. (r + c) * MOTES_PER_CSPR = r * MOTES_PER_CSPR + c * MOTES_PER_CSPR
          /\ q * (k + t) = q * k + t * q
      BY <2>1
    <3> QED BY <2>1, <3>1
  <2>4. /\ r * MOTES_PER_CSPR \in Nat /\ c * MOTES_PER_CSPR \in Nat
        /\ q * k \in Nat /\ t * q \in Nat
    BY <2>1
  <2>5. r * MOTES_PER_CSPR >= q * k
    BY <2>1, <2>2, <2>3, <2>4
  <2>6. ExchangeRate(r, k) >= q
    BY <1>1, <2>1, <2>5 DEF q
  <2> QED BY <2>6 DEF q, r, k
<1>4. IInv /\ [Next]_vars => [A]_vars
  <2> SUFFICES ASSUME IInv, [Next]_vars, y_supply' <= y_supply, y_supply' # 0
               PROVE  ExchangeRate(total_staked', y_supply') >= ExchangeRate(total_staked, y_supply)
    OBVIOUS
  <2>1. total_staked \in Nat /\ y_supply \in Nat
    BY IInvParts DEF StakeBooks, TokenBooks
  <2>2. CASE y_supply' = y_supply /\ total_staked' \in Nat /\ total_staked' >= total_staked
    BY <1>2, <2>1, <2>2
  <2>3. ASSUME NEW a \in Nat, NEW m \in Nat,
               total_staked' = total_staked + a, y_supply' = y_supply + m
        PROVE  y_supply' = y_supply /\ total_staked' \in Nat /\ total_staked' >= total_staked
    BY <2>1, <2>3
  <2>4. ASSUME NEW c \in Nat, NEW t \in Nat, t <= y_supply, c <= total_staked,
               total_staked' = total_staked - c, y_supply' = y_supply - t,
               c * MOTES_PER_CSPR <= t * ExchangeRate(total_staked, y_supply)
        PROVE  ExchangeRate(total_staked', y_supply') >= ExchangeRate(total_staked, y_supply)
    <3>1. t < y_supply
      BY <2>1, <2>4
    <3> QED BY <1>3, <2>1, <2>4, <3>1
  <2> QED BY <2>2, <2>3, <2>4, PoolStep
<1>5. Spec => [][A]_vars
  BY <1>4, StakingInvariant, PTL DEF Spec
<1> QED BY <1>5 DEF RateFallsOnlyByMint

(***************************************************************************)
(* The withdrawal requests.                                                *)
(***************************************************************************)
\* Requests are made by unstakes, one at a time, and claimed and paid by claims;
\* whatever else happens is nothing to those who wait, but that the purse moves.
RequestsMove ==
  \/ \E user \in Users, v \in Validators, amount \in TokenAmounts, era \in EraArgs :
       Unstake(user, v, amount, era)
  \/ \E user \in Users, era \in EraArgs : Claim(user, era)
  \/ UNCHANGED <<withdrawal_requests, next_request_id, received>>

LEMMA RequestStep ==
  ASSUME [Next]_vars
  PROVE  RequestsMove
<1>1. CASE UserNext
  <2>1. PICK user \in Users :
          \/ \E v \in Validators, amount \in StakeAmounts, p_score \in Scores, p_avg \in Averages :
               Stake(user, v, amount, p_score, p_avg)
          \/ \E v \in Validators, amount \in TokenAmounts, era \in EraArgs :
               Unstake(user, v, amount, era)
          \/ \E era \in EraArgs : Claim(user, era)
          \/ \E to \in Users, amount \in TokenAmounts : TransferYSCSPR(user, to, amount)
    BY <1>1 DEF UserNext
  <2>2. ASSUME NEW v \in Validators, NEW amount, NEW p_score, NEW p_avg,
               Stake(user, v, amount, p_score, p_avg)
        PROVE  UNCHANGED <<withdrawal_requests, next_request_id, received>>
    BY <2>2 DEF Stake, requestVars
  <2>3. ASSUME NEW to, NEW amount, TransferYSCSPR(user, to, amount)
        PROVE  UNCHANGED <<withdrawal_requests, next_request_id, received>>
    BY <2>3 DEF TransferYSCSPR, requestVars
  <2> QED BY <2>1, <2>2, <2>3 DEF RequestsMove
<1>2. CASE KeeperNext
  BY <1>2 DEF RequestsMove, KeeperNext, HarvestRewards, WithdrawForDelegation, ConfirmDelegation,
     ConfirmUndelegation, DepositFromUndelegation, requestVars
<1>3. CASE OwnerNext \/ NewEra \/ UNCHANGED vars
  BY <1>3 DEF RequestsMove, OwnerNext, SetKeeper, NewEra, vars, requestVars
<1> QED BY <1>1, <1>2, <1>3 DEF Next

LEMMA UnstakeMakesRequest ==
  ASSUME IInv, NEW user \in Users, NEW v \in Validators, NEW amount \in TokenAmounts,
         NEW era \in EraArgs, Unstake(user, v, amount, era)
  PROVE  /\ next_request_id' = next_request_id + 1
         /\ \A id \in RequestIds : withdrawal_requests'[id] = withdrawal_requests[id]
<1>1. next_request_id \in Nat \ {0}
  BY DEF IInv, TypeOK
<1>2. \A id \in RequestIds : id \in 1..next_request_id /\ id # next_request_id
  BY <1>1 DEF RequestIds
<1> QED BY <1>2 DEF Unstake

LEMMA ClaimChangesStatus ==
  ASSUME IInv, NEW user \in Users, NEW era \in EraArgs, Claim(user, era)
  PROVE  \A id \in RequestIds :
           \/ withdrawal_requests'[id] = withdrawal_requests[id]
           \/ withdrawal_requests'[id] = [withdrawal_requests[id] EXCEPT !.status = "Claimed"]
<1>1. DOMAIN withdrawal_requests = RequestIds
  BY DEF IInv, TypeOK
<1>2. withdrawal_requests' =
        [id \in RequestIds |-> IF id \in Maturing(user, era) THEN AsClaimed(withdrawal_requests[id])
                               ELSE withdrawal_requests[id]]
  BY <1>1 DEF Claim
<1> QED BY <1>2 DEF AsClaimed

\* A request changes only from pending to claimed, and is never dropped.
THEOREM RequestsFinal == Spec => RequestsAreFinal
<1> DEFINE A == \A id \in RequestIds :
                  withdrawal_requests'[id] \in
                    {withdrawal_requests[id], [withdrawal_requests[id] EXCEPT !.status = "Claimed"]}
<1>1. ASSUME IInv, [Next]_vars PROVE A
  <2>1. CASE UNCHANGED <<withdrawal_requests, next_request_id, received>>
    BY <2>1
  <2>2. CASE \E user \in Users, v \in Validators, amount \in TokenAmounts, era \in EraArgs :
               Unstake(user, v, amount, era)
    BY <1>1, <2>2, UnstakeMakesRequest
  <2>3. CASE \E user \in Users, era \in EraArgs : Claim(user, era)
    BY <1>1, <2>3, ClaimChangesStatus
  <2> QED BY <1>1, <2>1, <2>2, <2>3, RequestStep DEF RequestsMove
<1>2. IInv /\ [Next]_vars => [A]_vars
  BY <1>1
<1>3. Spec => [][A]_vars
  BY <1>2, StakingInvariant, PTL DEF Spec
<1> QED BY <1>3 DEF RequestsAreFinal

(***************************************************************************)
(* The promise to those who unstake.                                       *)
(***************************************************************************)
\* An unstake asks.
LEMMA UnstakeAsks ==
  ASSUME IInv, NEW user \in Users, NEW v \in Validators, NEW amount \in TokenAmounts,
         NEW era \in EraArgs, Unstake(user, v, amount, era)
  PROVE  Promise!Ask
<1> DEFINE id == next_request_id
           unlock == (era + UNBONDING_DELAY) % U64
<1>1. /\ id \in Nat \ {0} /\ RequestIds = 1..(id - 1) /\ RequestIds' = 1..id
      /\ withdrawal_requests \in [RequestIds -> Requests]
  BY DEF IInv, TypeOK, RequestIds, Unstake
<1>2. id \notin RequestIds /\ RequestIds' = RequestIds \cup {id}
  BY <1>1
<1>3. CsprFor(amount) \in Nat /\ unlock \in Nat
  BY CsprForNat, EraArgsNat, UnlockNat, StakingAssumption DEF IInv
<1>4. /\ withdrawal_requests'[id].user = user
      /\ withdrawal_requests'[id].amount = CsprFor(amount)
      /\ withdrawal_requests'[id].unlock_era = unlock
      /\ withdrawal_requests'[id].status = "Pending"
  <2>1. id \in 1..id
    BY <1>1
  <2> HIDE DEF unlock
  <2>2. withdrawal_requests' =
          [i \in 1..id |->
             IF i # id THEN withdrawal_requests[i]
             ELSE [user |-> user, amount |-> CsprFor(amount), unlock_era |-> unlock,
                   status |-> "Pending"]]
    BY DEF Unstake, unlock
  <2> QED BY <2>1, <2>2
<1>5. \A i \in RequestIds : withdrawal_requests'[i] = withdrawal_requests[i]
  BY UnstakeMakesRequest
<1>6. DOMAIN Promised = RequestIds /\ DOMAIN Promised' = RequestIds'
  BY DEF Promised
<1> HIDE DEF unlock
<1>7. Promised'[id] \in [user : Users, amount : Nat, unlock_era : Nat]
  BY <1>2, <1>3, <1>4 DEF Promised
<1>8. \A i \in RequestIds : Promised'[i] = Promised[i]
  BY <1>2, <1>5 DEF Promised
<1>9. PaidIds' = PaidIds
  BY <1>2, <1>4, <1>5 DEF PaidIds
<1>10. UNCHANGED <<purse, received>>
  BY DEF Unstake
<1> HIDE DEF id
<1> QED BY <1>2, <1>6, <1>7, <1>8, <1>9, <1>10 DEF Promise!Ask

\* What a claim marks is all that is due to its caller: his list holds every
\* request of his that is pending.
LEMMA ClaimMarksDue ==
  ASSUME IInv, NEW user \in Users, NEW era
  PROVE  Promise!Due(user, era) = Maturing(user, era)
<1>1. DOMAIN Promised = RequestIds /\ PaidIds \subseteq RequestIds
  BY DEF Promised, PaidIds
<1>2. \A id \in RequestIds : /\ Promised[id].user = withdrawal_requests[id].user
                             /\ Promised[id].unlock_era = withdrawal_requests[id].unlock_era
  BY DEF Promised
<1>3. \A id \in RequestIds : id \notin PaidIds <=> withdrawal_requests[id].status = "Pending"
  BY DEF IInv, TypeOK, Requests, PaidIds
<1>4. user_pending_withdrawals[user] =
        {id \in RequestIds : /\ withdrawal_requests[id].user = user
                             /\ withdrawal_requests[id].status = "Pending"}
  BY DEF IInv, PendingListed
<1> QED BY <1>1, <1>2, <1>3, <1>4 DEF Promise!Due, Maturing

\* A claim pays what it marks.
LEMMA ClaimPays ==
  ASSUME IInv, NEW user \in Users, NEW era \in EraArgs, Claim(user, era)
  PROVE  Promise!Pay(user, era)
<1> DEFINE claimed == Maturing(user, era)
           owed == [id \in claimed |-> withdrawal_requests[id].amount]
<1>1. /\ withdrawal_requests \in [RequestIds -> Requests]
      /\ user_pending_withdrawals \in [Users -> SUBSET RequestIds]
  BY DEF IInv, TypeOK
<1>2. claimed \subseteq RequestIds
  BY <1>1 DEF Maturing
<1>3. Promise!Due(user, era) = claimed
  BY ClaimMarksDue
<1>4. Promise!Amount(claimed) = SumFunctionOnSet(owed, claimed)
  <2>1. [id \in claimed |-> Promised[id].amount] = owed
    <3> HIDE DEF claimed
    <3> QED BY <1>2 DEF Promised
  <2> HIDE DEF claimed, owed
  <2>2. Promise!Amount(claimed) = Promise!SumFunctionOnSet(owed, claimed)
    BY <2>1 DEF Promise!Amount
  <2>3. Promise!SumFunctionOnSet(owed, claimed) = SumFunctionOnSet(owed, claimed)
    BY DEF Promise!SumFunctionOnSet, SumFunctionOnSet, Promise!FoldFunctionOnSet, FoldFunctionOnSet,
       Promise!MapThenFoldSet, MapThenFoldSet
  <2> QED BY <2>2, <2>3
<1>5. /\ SumFunctionOnSet(owed, claimed) <= purse
      /\ purse' = purse - SumFunctionOnSet(owed, claimed)
      /\ received' = [received EXCEPT ![user] = @ + SumFunctionOnSet(owed, claimed)]
      /\ next_request_id' = next_request_id
  BY DEF Claim
<1>6. RequestIds' = RequestIds
  BY <1>5 DEF RequestIds
<1>7. withdrawal_requests' =
        [id \in RequestIds |-> IF id \in claimed THEN AsClaimed(withdrawal_requests[id])
                               ELSE withdrawal_requests[id]]
  BY <1>1 DEF Claim
<1>8. \A id \in RequestIds :
         /\ withdrawal_requests'[id].user = withdrawal_requests[id].user
         /\ withdrawal_requests'[id].amount = withdrawal_requests[id].amount
         /\ withdrawal_requests'[id].unlock_era = withdrawal_requests[id].unlock_era
         /\ id \in claimed => withdrawal_requests'[id].status = "Claimed"
         /\ id \notin claimed => withdrawal_requests'[id] = withdrawal_requests[id]
  <2> HIDE DEF claimed
  <2> QED BY <1>1, <1>7 DEF AsClaimed, Requests
<1>9. Promised' = Promised
  BY <1>6, <1>8 DEF Promised
<1>10. PaidIds' = PaidIds \cup claimed
  <2> HIDE DEF claimed
  <2> QED BY <1>2, <1>6, <1>8 DEF PaidIds
<1> HIDE DEF claimed, owed
<1> QED BY <1>3, <1>4, <1>5, <1>9, <1>10 DEF Promise!Pay

LEMMA PromiseInit == Init => Promise!Init
<1> SUFFICES ASSUME Init PROVE Promise!Init
  OBVIOUS
<1>1. RequestIds = {}
  BY DEF Init, RequestIds
<1>2. DOMAIN Promised = {} /\ PaidIds = {}
  BY <1>1 DEF Promised, PaidIds
<1>3. purse \in Nat /\ received = [user \in Users |-> 0]
  BY DEF Init
<1> QED BY <1>2, <1>3 DEF Promise!Init

LEMMA PromiseStep ==
  ASSUME IInv, IInv', RequestsMove
  PROVE  Promise!Next
<1>1. CASE \E user \in Users, v \in Validators, amount \in TokenAmounts, era \in EraArgs :
             Unstake(user, v, amount, era)
  BY <1>1, UnstakeAsks DEF Promise!Next
<1>2. CASE \E user \in Users, era \in EraArgs : Claim(user, era)
  BY <1>2, ClaimPays DEF Promise!Next
<1>3. CASE UNCHANGED <<withdrawal_requests, next_request_id, received>>
  <2>1. RequestIds' = RequestIds
    BY <1>3 DEF RequestIds
  <2>2. UNCHANGED <<Promised, PaidIds>>
    BY <1>3, <2>1 DEF Promised, PaidIds
  <2>3. purse' \in Nat
    BY DEF IInv, TypeOK
  <2> QED BY <1>3, <2>2, <2>3 DEF Promise!Next, Promise!PurseMoves
<1> QED BY <1>1, <1>2, <1>3 DEF RequestsMove

\* The contract implements the promise: every call asks, pays all that is due to
\* its caller, or moves the purse and is nothing to those who wait.
THEOREM PromiseIsKept == Spec => PromiseKept
<1>1. IInv /\ IInv' /\ [Next]_vars => [Promise!Next]_Promise!vars
  BY RequestStep, PromiseStep
<1> QED BY <1>1, PromiseInit, StakingInvariant, PTL DEF Spec, PromiseKept, Promise!Spec

(***************************************************************************)
(* The keeper's queues.                                                    *)
(***************************************************************************)
LEMMA PendingFinite ==
  ASSUME NEW p, IsPendingList(p)
  PROVE  /\ IsFiniteSet(DOMAIN p) /\ SumFunction(p) \in Nat
         /\ \A v \in DOMAIN p : p[v] \in Nat /\ p[v] <= SumFunction(p)
<1>1. IsFiniteSet(DOMAIN p) /\ p \in [DOMAIN p -> Nat]
  BY StakingAssumption, FS_Subset DEF IsPendingList
<1>2. SumFunction(p) \in Nat /\ \A v \in DOMAIN p : p[v] <= SumFunction(p)
  BY ONLY <1>1, SumLedger
<1> QED BY <1>1, <1>2

\* A queue grows by what is added to it, whether or not the validator has an
\* entry.
LEMMA AddPendingSum ==
  ASSUME NEW p, IsPendingList(p), NEW v \in Validators, NEW amount \in Nat
  PROVE  SumFunction(AddPending(p, v, amount)) = SumFunction(p) + amount
<1> DEFINE q == AddPending(p, v, amount)
           D == DOMAIN p \cup {v}
           rest == DOMAIN p \ {v}
<1>1. /\ DOMAIN q = D /\ v \in D /\ D \ {v} = rest
      /\ \A w \in rest : q[w] = p[w]
      /\ q[v] = IF v \in DOMAIN p THEN p[v] + amount ELSE amount
  BY DEF AddPending
<1>2. IsFiniteSet(DOMAIN p) /\ IsFiniteSet(D) /\ IsFiniteSet(rest)
  BY PendingFinite, FS_AddElement, FS_Subset
<1>3. /\ \A w \in DOMAIN p : p[w] \in Int
      /\ \A w \in D : q[w] \in Int
      /\ q[v] \in Int
  BY AddPendingType, PendingFinite DEF IsPendingList, AddPending
<1> HIDE DEF q, D, rest
<1>4. SumFunctionOnSet(q, D) = q[v] + SumFunctionOnSet(q, rest)
  BY <1>1, <1>2, <1>3, SumOnSplit
<1>5. SumFunctionOnSet(q, rest) = SumFunctionOnSet(p, rest)
  BY <1>1, <1>2, SumOnCong
<1>6. SumFunctionOnSet(p, rest) \in Int
  BY <1>2, <1>3, SumOnInt DEF rest
<1>7. CASE v \in DOMAIN p
  <2>1. SumFunctionOnSet(p, DOMAIN p) = p[v] + SumFunctionOnSet(p, rest)
    BY <1>2, <1>3, <1>7, SumOnSplit DEF rest
  <2> QED BY <1>1, <1>3, <1>4, <1>5, <1>6, <1>7, <2>1 DEF SumFunction, q
<1>8. CASE v \notin DOMAIN p
  <2>1. rest = DOMAIN p
    BY <1>8 DEF rest
  <2> QED BY <1>1, <1>4, <1>5, <1>6, <1>8, <2>1 DEF SumFunction, q
<1> QED BY <1>7, <1>8

\* A confirmation takes at most the confirmed amount off a queue.
LEMMA ConfirmPendingSum ==
  ASSUME NEW p, IsPendingList(p), NEW v \in DOMAIN p, NEW amount \in Nat
  PROVE  /\ SumFunction(ConfirmPending(p, v, amount)) \in Nat
         /\ SumFunction(ConfirmPending(p, v, amount)) <= SumFunction(p)
         /\ SumFunction(p) <= SumFunction(ConfirmPending(p, v, amount)) + amount
<1> DEFINE q == ConfirmPending(p, v, amount)
           rest == DOMAIN p \ {v}
<1>1. /\ IsFiniteSet(DOMAIN p) /\ IsFiniteSet(rest)
      /\ \A w \in DOMAIN p : p[w] \in Int /\ p[w] \in Nat
  BY PendingFinite, FS_Subset
<1>2. SumFunctionOnSet(p, DOMAIN p) = p[v] + SumFunctionOnSet(p, rest)
  BY <1>1, SumOnSplit
<1>3. SumFunctionOnSet(p, rest) \in Nat
  BY <1>1, SumOnNat
<1>4. CASE amount >= p[v]
  <2>1. DOMAIN q = rest /\ \A w \in rest : q[w] = p[w]
    BY <1>4 DEF ConfirmPending, Restrict
  <2> HIDE DEF q, rest
  <2>2. SumFunctionOnSet(q, rest) = SumFunctionOnSet(p, rest)
    BY <1>1, <2>1, SumOnCong
  <2> QED BY <1>1, <1>2, <1>3, <1>4, <2>1, <2>2 DEF SumFunction, q
<1>5. CASE ~(amount >= p[v])
  <2>1. p[v] \in Nat /\ amount <= p[v]
    BY <1>1, <1>5
  <2>2. q = [p EXCEPT ![v] = p[v] - amount]
    BY <1>5, <2>1 DEF ConfirmPending, CheckedSub
  <2>3. /\ DOMAIN q = DOMAIN p /\ q[v] = p[v] - amount
        /\ \A w \in rest : q[w] = p[w]
        /\ \A w \in DOMAIN p : q[w] \in Int
    BY <1>1, <2>2 DEF IsPendingList
  <2> HIDE DEF q, rest
  <2>4. SumFunctionOnSet(q, DOMAIN p) = q[v] + SumFunctionOnSet(q, rest)
    BY <1>1, <2>3, SumOnSplit DEF rest
  <2>5. SumFunctionOnSet(q, rest) = SumFunctionOnSet(p, rest)
    BY <1>1, <2>3, SumOnCong
  <2> QED BY <1>2, <1>3, <2>1, <2>3, <2>4, <2>5 DEF SumFunction, q
<1> QED BY <1>4, <1>5

\* What a stake does to the principal and the queues.
LEMMA StakeQueues ==
  ASSUME IInv, NEW user \in Users, NEW v \in Validators, NEW amount \in StakeAmounts,
         NEW p_score, NEW p_avg, Stake(user, v, amount, p_score, p_avg)
  PROVE  /\ amount \in Nat /\ Principal' = Principal + amount
         /\ SumFunction(pending_delegations') = SumFunction(pending_delegations) + amount
         /\ pending_undelegations' = pending_undelegations
<1>1. amount \in Nat
  BY StakingAssumption
<1>2. user_stakes \in [Stakes -> Nat] /\ <<user, v>> \in Stakes
  BY DEF IInv, TypeOK, Stakes
<1>3. user_stakes' = [user_stakes EXCEPT ![<<user, v>>] = @ + amount]
  BY DEF Stake
<1>4. /\ user_stakes' \in [Stakes -> Nat]
      /\ user_stakes'[<<user, v>>] = user_stakes[<<user, v>>] + amount
      /\ \A s \in Stakes : s # <<user, v>> => user_stakes'[s] = user_stakes[s]
  BY <1>1, <1>2, <1>3
<1>5. Principal' = Principal + amount
  <2>1. SumFunction(user_stakes') = SumFunction(user_stakes) + amount
    <3>1. amount \in Int /\ user \in Users /\ v \in Validators
      BY <1>1
    <3> QED BY ONLY <1>2, <1>4, <3>1, StakeSums
  <2> QED BY <2>1 DEF Principal
<1>6. SumFunction(pending_delegations') = SumFunction(pending_delegations) + amount
  <2>1. pending_delegations' = AddPending(pending_delegations, v, amount)
    BY DEF Stake
  <2>2. IsPendingList(pending_delegations)
    BY DEF IInv, TypeOK
  <2> QED BY <1>1, <2>1, <2>2, AddPendingSum
<1> QED BY <1>1, <1>5, <1>6 DEF Stake

\* What an unstake does to them, and to what is owed.
LEMMA UnstakeQueues ==
  ASSUME IInv, NEW user \in Users, NEW v \in Validators, NEW amount \in TokenAmounts,
         NEW era, Unstake(user, v, amount, era)
  PROVE  LET c == CsprFor(amount)
         IN  /\ c \in Nat /\ Principal' = Principal - c
             /\ SumFunction(pending_undelegations') = SumFunction(pending_undelegations) + c
             /\ pending_delegations' = pending_delegations
<1> DEFINE c == CsprFor(amount)
           d == 0 - c
<1>1. c \in Nat /\ d \in Int
  BY StakingAssumption, CsprForNat DEF IInv
<1>2. user_stakes \in [Stakes -> Nat] /\ <<user, v>> \in Stakes
  BY DEF IInv, TypeOK, Stakes
<1>3. /\ user_stakes' = [user_stakes EXCEPT ![<<user, v>>] = CheckedSub(@, c)]
      /\ c <= user_stakes[<<user, v>>]
  BY DEF Unstake
<1> HIDE DEF c
<1>4. CheckedSub(user_stakes[<<user, v>>], c) = user_stakes[<<user, v>>] + d
      /\ user_stakes[<<user, v>>] + d \in Nat
  BY <1>1, <1>2, <1>3 DEF CheckedSub
<1>5. /\ user_stakes' \in [Stakes -> Nat]
      /\ user_stakes'[<<user, v>>] = user_stakes[<<user, v>>] + d
      /\ \A s \in Stakes : s # <<user, v>> => user_stakes'[s] = user_stakes[s]
  BY <1>2, <1>3, <1>4
<1>6. Principal' = Principal - c
  <2>1. SumFunction(user_stakes') = SumFunction(user_stakes) + d
    <3>1. d \in Int /\ user \in Users /\ v \in Validators
      BY <1>1
    <3> QED BY ONLY <1>2, <1>5, <3>1, StakeSums
  <2>2. SumFunction(user_stakes) \in Nat
    BY <1>2, Finiteness, SumLedger
  <2> QED BY <1>1, <2>1, <2>2 DEF Principal
<1>7. SumFunction(pending_undelegations') = SumFunction(pending_undelegations) + c
  <2>1. pending_undelegations' = AddPending(pending_undelegations, v, c)
    BY DEF Unstake, c
  <2>2. IsPendingList(pending_undelegations)
    BY DEF IInv, TypeOK
  <2> QED BY <1>1, <2>1, <2>2, AddPendingSum
<1> QED BY <1>1, <1>6, <1>7 DEF Unstake, c

\* The queues hold what the stakes and unstakes put there.
THEOREM QueuesFollow == Spec => QueuesFollowPrincipal
<1> DEFINE A == LET staked == Principal' - Principal
                IN /\ staked > 0 => SumFunction(pending_delegations') =
                                      SumFunction(pending_delegations) + staked
                   /\ staked < 0 => SumFunction(pending_undelegations') =
                                      SumFunction(pending_undelegations) - staked
<1>1. ASSUME IInv, [Next]_vars PROVE A
  <2>1. Principal \in Nat
    BY <1>1, Finiteness, SumLedger DEF IInv, TypeOK, Principal
  <2>2. ASSUME NEW user \in Users, NEW v \in Validators, NEW amount \in StakeAmounts,
               NEW p_score, NEW p_avg, Stake(user, v, amount, p_score, p_avg)
        PROVE  A
    <3>1. /\ amount \in Nat /\ Principal' = Principal + amount
          /\ SumFunction(pending_delegations') = SumFunction(pending_delegations) + amount
      BY <1>1, <2>2, StakeQueues
    <3>2. Principal' - Principal = amount
      BY <2>1, <3>1
    <3> QED BY <3>1, <3>2
  <2>3. ASSUME NEW user \in Users, NEW v \in Validators, NEW amount \in TokenAmounts,
               NEW era, Unstake(user, v, amount, era)
        PROVE  A
    <3> DEFINE c == CsprFor(amount)
    <3>1. /\ c \in Nat /\ Principal' = Principal - c
          /\ SumFunction(pending_undelegations') = SumFunction(pending_undelegations) + c
      BY <1>1, <2>3, UnstakeQueues
    <3>2. SumFunction(pending_undelegations) \in Nat
      BY <1>1, PendingFinite DEF IInv, TypeOK
    <3> HIDE DEF c
    <3>3. Principal' - Principal = 0 - c
      BY <2>1, <3>1
    <3>4. SumFunction(pending_undelegations) + c = SumFunction(pending_undelegations) - (0 - c)
      BY <3>1, <3>2
    <3> QED BY <3>1, <3>3, <3>4
  <2>4. CASE user_stakes' = user_stakes
    <3>1. Principal' - Principal = 0
      BY <2>1, <2>4 DEF Principal
    <3> QED BY <3>1
  <2> HIDE DEF A
  <2>5. CASE UserNext
    <3>1. PICK user \in Users :
            \/ \E v \in Validators, amount \in StakeAmounts, p_score \in Scores, p_avg \in Averages :
                 Stake(user, v, amount, p_score, p_avg)
            \/ \E v \in Validators, amount \in TokenAmounts, era \in EraArgs :
                 Unstake(user, v, amount, era)
            \/ user_stakes' = user_stakes
      BY <2>5 DEF UserNext, Claim, TransferYSCSPR, stakeVars
    <3> QED BY <2>2, <2>3, <2>4, <3>1
  <2>6. CASE KeeperNext \/ OwnerNext \/ NewEra \/ UNCHANGED vars
    BY <2>4, <2>6 DEF KeeperNext, HarvestRewards, WithdrawForDelegation, ConfirmDelegation,
       ConfirmUndelegation, DepositFromUndelegation, OwnerNext, SetKeeper, NewEra, vars, stakeVars
  <2> QED BY <1>1, <2>5, <2>6 DEF Next
<1>2. IInv /\ [Next]_vars => [A]_vars
  BY <1>1
<1>3. Spec => [][A]_vars
  BY <1>2, StakingInvariant, PTL DEF Spec
<1> QED BY <1>3 DEF QueuesFollowPrincipal

\* What a confirmation takes off the delegation queue has been counted as
\* delegated, and nothing else takes anything off it.
THEOREM ConfirmedCounted == Spec => ConfirmedIsDelegated
<1> DEFINE A == LET taken == SumFunction(pending_delegations) - SumFunction(pending_delegations')
                IN  taken > 0 => total_delegated' - total_delegated >= taken
<1>1. ASSUME IInv, [Next]_vars PROVE A
  <2>1. /\ IsPendingList(pending_delegations) /\ SumFunction(pending_delegations) \in Nat
        /\ total_delegated \in Nat
    BY <1>1, PendingFinite DEF IInv, TypeOK
  <2>2. CASE pending_delegations' = pending_delegations
    <3>1. SumFunction(pending_delegations) - SumFunction(pending_delegations') = 0
      BY <2>1, <2>2
    <3> QED BY <3>1
  <2>3. ASSUME NEW user \in Users, NEW v \in Validators, NEW amount \in StakeAmounts,
               NEW p_score, NEW p_avg, Stake(user, v, amount, p_score, p_avg)
        PROVE  A
    <3>1. /\ amount \in Nat
          /\ SumFunction(pending_delegations') = SumFunction(pending_delegations) + amount
      BY <1>1, <2>3, StakeQueues
    <3>2. SumFunction(pending_delegations) - SumFunction(pending_delegations') = 0 - amount
      BY <2>1, <3>1
    <3> QED BY <3>1, <3>2
  <2>4. ASSUME NEW caller, NEW v \in Validators, NEW amount \in KeeperAmounts,
               ConfirmDelegation(caller, v, amount)
        PROVE  A
    <3>1. amount \in Nat
      BY StakingAssumption
    <3>2. /\ v \in DOMAIN pending_delegations
          /\ pending_delegations' = ConfirmPending(pending_delegations, v, amount)
          /\ total_delegated' = total_delegated + amount
      BY <2>4 DEF ConfirmDelegation
    <3>3. /\ SumFunction(pending_delegations') \in Nat
          /\ SumFunction(pending_delegations) <= SumFunction(pending_delegations') + amount
      BY <2>1, <3>1, <3>2, ConfirmPendingSum
    <3>4. total_delegated' - total_delegated = amount
      BY <2>1, <3>1, <3>2
    <3> QED BY <2>1, <3>1, <3>3, <3>4
  <2> HIDE DEF A
  <2>5. CASE UserNext
    <3>1. PICK user \in Users :
            \/ \E v \in Validators, amount \in StakeAmounts, p_score \in Scores, p_avg \in Averages :
                 Stake(user, v, amount, p_score, p_avg)
            \/ pending_delegations' = pending_delegations
      BY <2>5 DEF UserNext, Unstake, Claim, TransferYSCSPR, delegateVars
    <3> QED BY <2>2, <2>3, <3>1
  <2>6. CASE KeeperNext
    <3>1. PICK caller \in Keepers \cup {Owner}, amount \in KeeperAmounts :
            \/ \E v \in Validators : ConfirmDelegation(caller, v, amount)
            \/ pending_delegations' = pending_delegations
      BY <2>6 DEF KeeperNext, HarvestRewards, WithdrawForDelegation, ConfirmUndelegation,
         DepositFromUndelegation, delegateVars
    <3> QED BY <2>2, <2>4, <3>1
  <2>7. CASE OwnerNext \/ NewEra \/ UNCHANGED vars
    BY <2>2, <2>7 DEF OwnerNext, SetKeeper, NewEra, vars, delegateVars
  <2> QED BY <1>1, <2>5, <2>6, <2>7 DEF Next
<1>2. IInv /\ [Next]_vars => [A]_vars
  BY <1>1
<1>3. Spec => [][A]_vars
  BY <1>2, StakingInvariant, PTL DEF Spec
<1> QED BY <1>3 DEF ConfirmedIsDelegated

-----------------------------------------------------------------------------
(***************************************************************************)
(* The worker.                                                             *)
(***************************************************************************)

(***************************************************************************)
(* What the worker's variables hold.                                       *)
(***************************************************************************)
Entry == [v : Validators, amount : Nat]
Calls == {"withdraw_for_delegation", "delegate", "confirm_delegation", "undelegate",
          "confirm_undelegation", "deposit_from_undelegation"}
Txs == [call : Calls, entry : Entry]
         \cup [call : {"harvest_rewards"}, entry : [amount : Nat, era : Nat]]

\* Who waits for a transaction is in some phase, a harvest has one entry, and
\* the tracker hears of undelegations and deposits only.
Job == {job \in [phases : Seq(Phases), left : Seq(Entry), tx : Txs \cup {NoTx}, executed : BOOLEAN] :
          /\ job.tx # NoTx => job.phases # <<>>
          /\ job.tx # NoTx /\ Head(job.phases) = "harvest" => job.left = <<>>
          /\ job.executed => job.tx.call \in Recorded}

Record == [validator : Validators, amount : Nat, startEra : Nat, completeEra : Nat,
           deposited : BOOLEAN]

WorkerTypes ==
  /\ jobs \in [Jobs -> Job]
  /\ late \in Seq(Txs)
  /\ records \in Seq(Record) /\ file \in Seq(Record)
  /\ keeper_funds \in Int
  /\ delegated \in [Validators -> Nat]
  /\ unbonding \in [Eras -> Nat]
  /\ \A e \in Eras : e <= network_era => unbonding[e] = 0
  /\ executed \in [delegate : Nat, undelegate : Nat]
  /\ network_era \in 1..MaxEra

\* What a transaction carries if it is a given call, and what of it handlers
\* wait for, nobody waits for, and may still be executed.
Amount(tx, call) == IF tx.call = call THEN tx.entry.amount ELSE 0
Waited(job, call) == IF IsWaiting(job) THEN Amount(job.tx, call) ELSE 0
InJobs(js, call) == SumFunctionOnSet([j \in Jobs |-> Waited(js[j], call)], Jobs)
InLate(txs, call) == SumFunctionOnSet([i \in 1..Len(txs) |-> Amount(txs[i], call)], 1..Len(txs))
Outstanding(call) == InJobs(jobs, call) + InLate(late, call)

\* What handlers have confirmed, or wait to confirm, and not recorded yet; what
\* the records say is complete by an era, and what the auction releases by it.
ToRecord(js) == SumFunctionOnSet([j \in Jobs |-> Amount(js[j].tx, "confirm_undelegation")], Jobs)
CompleteBy(recs, x) ==
  SumFunctionOnSet(
    [i \in 1..Len(recs) |-> IF recs[i].completeEra <= x THEN recs[i].amount ELSE 0],
    1..Len(recs))
ReleasedBy(released, x) ==
  SumFunctionOnSet([e \in Eras |-> IF e <= x THEN released[e] ELSE 0], Eras)

-----------------------------------------------------------------------------
(***************************************************************************)
(* Sums over handlers, transactions and records.                           *)
(***************************************************************************)
LEMMA Finite ==
  /\ IsFiniteSet(Jobs) /\ IsFiniteSet(Validators) /\ IsFiniteSet(Eras)
  /\ \A n \in Nat : IsFiniteSet(1..n)
<1>1. 1 \in Int /\ MaxEra + AUCTION_DELAY \in Int
  BY KeeperAssumption
<1>2. IsFiniteSet(1..(MaxEra + AUCTION_DELAY))
  BY ONLY <1>1, FS_Interval
<1> QED BY <1>2, KeeperAssumption, StakingAssumption, Finiteness DEF Eras

LEMMA AmountNat ==
  ASSUME NEW tx \in Txs \cup {NoTx}, NEW call, call # "none"
  PROVE  Amount(tx, call) \in Nat
BY DEF Txs, NoTx, Amount, Entry

LEMMA JobParts ==
  ASSUME NEW job \in Job
  PROVE  /\ job.phases \in Seq(Phases) /\ job.left \in Seq(Entry)
         /\ job.tx \in Txs \cup {NoTx} /\ job.executed \in BOOLEAN
         /\ job.tx # NoTx => job.phases # <<>>
         /\ job.tx # NoTx /\ Head(job.phases) = "harvest" => job.left = <<>>
         /\ job.executed => job.tx.call \in Recorded /\ job.tx \in Txs
<1>1. job.executed => job.tx # NoTx
  BY DEF Job, NoTx, Recorded
<1> QED BY <1>1 DEF Job

LEMMA WaitedNat ==
  ASSUME NEW job \in Job, NEW call, call # "none"
  PROVE  Waited(job, call) \in Nat /\ Waited(job, call) <= Amount(job.tx, call)
<1>1. Amount(job.tx, call) \in Nat
  BY JobParts, AmountNat
<1> QED BY <1>1 DEF Waited

\* What is waited for, and what is to be recorded, are amounts.
LEMMA InJobsNat ==
  ASSUME NEW js \in [Jobs -> Job]
  PROVE  /\ ToRecord(js) \in Nat
         /\ \A call : call # "none" => InJobs(js, call) \in Nat
<1>1. ToRecord(js) \in Nat
  <2> DEFINE f == [j \in Jobs |-> Amount(js[j].tx, "confirm_undelegation")]
  <2>1. \A j \in Jobs : f[j] \in Nat
    BY JobParts, AmountNat
  <2> HIDE DEF f
  <2>2. SumFunctionOnSet(f, Jobs) \in Nat
    BY <2>1, Finite, SumOnNat
  <2> QED BY <2>2 DEF ToRecord, f
<1>2. ASSUME NEW call, call # "none" PROVE InJobs(js, call) \in Nat
  <2> DEFINE f == [j \in Jobs |-> Waited(js[j], call)]
  <2>1. \A j \in Jobs : f[j] \in Nat
    BY <1>2, WaitedNat
  <2> HIDE DEF f
  <2>2. SumFunctionOnSet(f, Jobs) \in Nat
    BY <2>1, Finite, SumOnNat
  <2> QED BY <2>2 DEF InJobs, f
<1> QED BY <1>1, <1>2

\* One handler goes on: the sums over the handlers move by what it does.
LEMMA JobChange ==
  ASSUME NEW js \in [Jobs -> Job], NEW js2 \in [Jobs -> Job], NEW j \in Jobs,
         \A k \in Jobs : k # j => js2[k] = js[k], NEW call, call # "none"
  PROVE  /\ InJobs(js, call) \in Nat /\ Waited(js[j], call) \in Nat
         /\ Waited(js2[j], call) \in Nat
         /\ Waited(js[j], call) <= InJobs(js, call)
         /\ InJobs(js2, call) = InJobs(js, call) - Waited(js[j], call) + Waited(js2[j], call)
<1> DEFINE f == [k \in Jobs |-> Waited(js[k], call)]
           g == [k \in Jobs |-> Waited(js2[k], call)]
<1>1. \A k \in Jobs : f[k] \in Nat
  BY WaitedNat
<1>2. Waited(js2[j], call) \in Nat
  BY WaitedNat
<1>3. \A k \in Jobs : g[k] \in Nat /\ (k # j => g[k] = f[k])
  BY WaitedNat
<1>4. g[j] = Waited(js2[j], call) /\ f[j] = Waited(js[j], call)
  OBVIOUS
<1>5. IsFiniteSet(Jobs) /\ InJobs(js, call) = SumFunctionOnSet(f, Jobs)
      /\ InJobs(js2, call) = SumFunctionOnSet(g, Jobs)
  BY Finite DEF InJobs
<1> HIDE DEF f, g
<1>6. SumFunctionOnSet(f, Jobs) \in Nat /\ f[j] <= SumFunctionOnSet(f, Jobs)
  BY <1>1, <1>5, SumOnNat
<1>7. /\ \A k \in Jobs : f[k] \in Int /\ g[k] \in Int
      /\ \A k \in Jobs : k # j => g[k] = f[k]
  BY <1>1, <1>3
<1>8. SumFunctionOnSet(g, Jobs) =
        SumFunctionOnSet(f, Jobs) + (IF j \in Jobs THEN g[j] - f[j] ELSE 0)
  BY <1>5, <1>7, SumOnChange
<1> QED BY <1>1, <1>2, <1>4, <1>5, <1>6, <1>8

LEMMA ToRecordChange ==
  ASSUME NEW js \in [Jobs -> Job], NEW js2 \in [Jobs -> Job], NEW j \in Jobs,
         \A k \in Jobs : k # j => js2[k] = js[k]
  PROVE  /\ ToRecord(js) \in Nat
         /\ Amount(js[j].tx, "confirm_undelegation") \in Nat
         /\ Amount(js2[j].tx, "confirm_undelegation") \in Nat
         /\ Amount(js[j].tx, "confirm_undelegation") <= ToRecord(js)
         /\ ToRecord(js2) = ToRecord(js) - Amount(js[j].tx, "confirm_undelegation")
                                         + Amount(js2[j].tx, "confirm_undelegation")
<1> DEFINE call == "confirm_undelegation"
           f == [k \in Jobs |-> Amount(js[k].tx, call)]
           g == [k \in Jobs |-> Amount(js2[k].tx, call)]
<1>1. \A k \in Jobs : f[k] \in Nat
  BY JobParts, AmountNat
<1>2. Amount(js2[j].tx, call) \in Nat
  BY JobParts, AmountNat
<1>3. \A k \in Jobs : g[k] \in Nat /\ (k # j => g[k] = f[k])
  BY JobParts, AmountNat
<1>4. g[j] = Amount(js2[j].tx, call) /\ f[j] = Amount(js[j].tx, call)
  OBVIOUS
<1>5. IsFiniteSet(Jobs) /\ ToRecord(js) = SumFunctionOnSet(f, Jobs)
      /\ ToRecord(js2) = SumFunctionOnSet(g, Jobs)
  BY Finite DEF ToRecord
<1> HIDE DEF f, g
<1>6. SumFunctionOnSet(f, Jobs) \in Nat /\ f[j] <= SumFunctionOnSet(f, Jobs)
  BY <1>1, <1>5, SumOnNat
<1>7. /\ \A k \in Jobs : f[k] \in Int /\ g[k] \in Int
      /\ \A k \in Jobs : k # j => g[k] = f[k]
  BY <1>1, <1>3
<1>8. SumFunctionOnSet(g, Jobs) =
        SumFunctionOnSet(f, Jobs) + (IF j \in Jobs THEN g[j] - f[j] ELSE 0)
  BY <1>5, <1>7, SumOnChange
<1> QED BY <1>1, <1>2, <1>4, <1>5, <1>6, <1>8

\* With nobody at work there is nothing to wait for.
LEMMA IdleJobs ==
  /\ Idle \in Job
  /\ \A call : call # "none" => InJobs([j \in Jobs |-> Idle], call) = 0
  /\ ToRecord([j \in Jobs |-> Idle]) = 0
<1>1. Idle \in Job
  BY DEF Idle, Job, NoTx
<1>2. ASSUME NEW call, call # "none" PROVE InJobs([j \in Jobs |-> Idle], call) = 0
  <2> DEFINE js == [j \in Jobs |-> Idle]
             f == [j \in Jobs |-> Waited(js[j], call)]
  <2>1. \A j \in Jobs : f[j] = 0
    BY DEF Waited, IsWaiting, Idle
  <2> HIDE DEF f
  <2>2. SumFunctionOnSet(f, Jobs) = 0
    BY <2>1, Finite, SumOnZero
  <2> QED BY <2>2 DEF InJobs, f
<1>3. ToRecord([j \in Jobs |-> Idle]) = 0
  <2> DEFINE js == [j \in Jobs |-> Idle]
             f == [j \in Jobs |-> Amount(js[j].tx, "confirm_undelegation")]
  <2>1. \A j \in Jobs : f[j] = 0
    BY DEF Amount, Idle, NoTx
  <2> HIDE DEF f
  <2>2. SumFunctionOnSet(f, Jobs) = 0
    BY <2>1, Finite, SumOnZero
  <2> QED BY <2>2 DEF ToRecord, f
<1> QED BY <1>1, <1>2, <1>3

\* Transactions left behind: the sum of what is in a list.
LEMMA LateNat ==
  ASSUME NEW txs \in Seq(Txs), NEW call, call # "none"
  PROVE  /\ InLate(txs, call) \in Nat
         /\ \A i \in 1..Len(txs) : /\ Amount(txs[i], call) \in Nat
                                   /\ Amount(txs[i], call) <= InLate(txs, call)
<1> DEFINE S == 1..Len(txs)
           f == [i \in S |-> Amount(txs[i], call)]
<1>1. IsFiniteSet(S)
  BY Finite
<1>2. \A i \in S : f[i] \in Nat
  BY AmountNat
<1>3. InLate(txs, call) = SumFunctionOnSet(f, S) /\ \A i \in S : f[i] = Amount(txs[i], call)
  BY DEF InLate
<1> HIDE DEF f, S
<1>4. SumFunctionOnSet(f, S) \in Nat /\ \A i \in S : f[i] <= SumFunctionOnSet(f, S)
  BY <1>1, <1>2, SumOnNat
<1> QED BY <1>2, <1>3, <1>4 DEF S

LEMMA LateJoined ==
  ASSUME NEW txs \in Seq(Txs), NEW more \in Seq(Txs), NEW call, call # "none"
  PROVE  InLate(txs \o more, call) = InLate(txs, call) + InLate(more, call)
<1> DEFINE m == Len(txs)
           n == Len(more)
           both == txs \o more
           f == [i \in 1..m |-> Amount(txs[i], call)]
           g == [i \in 1..n |-> Amount(more[i], call)]
           h == [i \in 1..(m + n) |-> Amount(both[i], call)]
<1>1. m \in Nat /\ n \in Nat /\ Len(both) = m + n
  OBVIOUS
<1>2. \A i \in 1..m : both[i] = txs[i] /\ i \in 1..(m + n)
  BY <1>1
<1>3. \A i \in 1..n : both[m + i] = more[i] /\ m + i \in 1..(m + n)
  BY <1>1
<1>4. (\A i \in 1..m : f[i] \in Nat) /\ (\A i \in 1..n : g[i] \in Nat)
  BY AmountNat
<1>5. \A i \in 1..m : f[i] \in Int /\ h[i] = f[i]
  BY <1>2, <1>4
<1>6. \A i \in 1..n : g[i] \in Int /\ h[m + i] = g[i]
  BY <1>3, <1>4
<1>7. /\ InLate(txs, call) = SumFunctionOnSet(f, 1..m)
      /\ InLate(more, call) = SumFunctionOnSet(g, 1..n)
      /\ InLate(both, call) = SumFunctionOnSet(h, 1..(m + n))
  BY <1>1 DEF InLate
<1> HIDE DEF f, g, h, m, n, both
<1>8. SumFunctionOnSet(h, 1..(m + n)) = SumFunctionOnSet(f, 1..m) + SumFunctionOnSet(g, 1..n)
  <2>1. m \in Nat /\ n \in Nat
    BY <1>1
  <2> QED BY ONLY <2>1, <1>5, <1>6, SumJoined
<1> QED BY <1>7, <1>8 DEF both

LEMMA LateRemoved ==
  ASSUME NEW txs \in Seq(Txs), NEW k \in 1..Len(txs), NEW call, call # "none"
  PROVE  /\ RemoveAt(txs, k) \in Seq(Txs)
         /\ \A i \in 1..Len(RemoveAt(txs, k)) : \E m \in 1..Len(txs) : RemoveAt(txs, k)[i] = txs[m]
         /\ InLate(txs, call) = InLate(RemoveAt(txs, k), call) + Amount(txs[k], call)
<1> DEFINE n == Len(txs)
           rest == RemoveAt(txs, k)
           f == [i \in 1..n |-> Amount(txs[i], call)]
           h == [i \in 1..(n - 1) |-> Amount(rest[i], call)]
<1>1. n \in Nat /\ k \in 1..n
  OBVIOUS
<1> DEFINE a == SubSeq(txs, 1, k - 1)
           b == SubSeq(txs, k + 1, n)
<1>10. /\ a \in Seq(Txs) /\ Len(a) = k - 1 /\ \A i \in 1..(k - 1) : a[i] = txs[i]
       /\ b \in Seq(Txs) /\ Len(b) = n - k /\ \A i \in 1..(n - k) : b[i] = txs[i + k]
  <2>1. \A i \in 1..(k - 1) : i \in 1..n
    BY <1>1
  <2>2. \A i \in (k + 1)..n : i \in 1..n
    BY <1>1
  <2>3. a \in Seq(Txs) /\ Len(a) = k - 1 /\ \A i \in 1..(k - 1) : a[i] = txs[i]
    BY <1>1, <2>1
  <2>4. b \in Seq(Txs) /\ Len(b) = n - k /\ \A i \in 1..(n - k) : b[i] = txs[i + k]
    BY <1>1, <2>2
  <2> QED BY <2>3, <2>4
<1>2. rest = a \o b /\ rest \in Seq(Txs) /\ Len(rest) = n - 1
  <2>1. rest = a \o b
    BY DEF RemoveAt
  <2> HIDE DEF rest, a, b
  <2> QED BY <1>1, <1>10, <2>1
<1>3. \A i \in 1..(n - 1) : rest[i] = IF i < k THEN txs[i] ELSE txs[i + 1]
  <2> SUFFICES ASSUME NEW i \in 1..(n - 1)
               PROVE  rest[i] = IF i < k THEN txs[i] ELSE txs[i + 1]
    OBVIOUS
  <2> HIDE DEF rest, a, b, n
  <2>1. CASE i < k
    <3>1. i \in 1..(k - 1) /\ i \in 1..Len(a)
      BY <1>1, <1>10, <2>1
    <3> QED BY <1>2, <1>10, <2>1, <3>1
  <2>2. CASE ~(i < k)
    <3>1. i - Len(a) \in 1..(n - k) /\ i - Len(a) + k = i + 1 /\ i > Len(a)
          /\ i \in 1..(Len(a) + Len(b))
      BY <1>1, <1>10, <2>2
    <3>2. rest[i] = b[i - Len(a)]
      BY <1>2, <1>10, <3>1
    <3> QED BY <1>10, <2>2, <3>1, <3>2
  <2> QED BY <2>1, <2>2
<1>4. \A i \in 1..n : f[i] \in Nat
  BY AmountNat
<1>5. \A i \in 1..n : f[i] \in Int
  BY <1>4
<1>6. \A i \in 1..(n - 1) : h[i] = IF i < k THEN f[i] ELSE f[i + 1]
  BY <1>1, <1>3
<1>7. /\ InLate(txs, call) = SumFunctionOnSet(f, 1..n)
      /\ InLate(rest, call) = SumFunctionOnSet(h, 1..(n - 1))
      /\ f[k] = Amount(txs[k], call)
  BY <1>2 DEF InLate
<1> HIDE DEF f, h, n, rest
<1>8. SumFunctionOnSet(f, 1..n) = SumFunctionOnSet(h, 1..(n - 1)) + f[k]
  BY <1>1, <1>5, <1>6, SumRemoved
<1>9. \A i \in 1..(n - 1) : \E m \in 1..n : rest[i] = txs[m]
  <2>1. \A i \in 1..(n - 1) : i \in 1..n /\ i + 1 \in 1..n
    BY <1>1
  <2> QED BY <1>3, <2>1
<1> QED BY <1>2, <1>7, <1>8, <1>9 DEF rest, n

LEMMA LateOne ==
  ASSUME NEW tx \in Txs, NEW call, call # "none"
  PROVE  InLate(<<tx>>, call) = Amount(tx, call) /\ InLate(<<>>, call) = 0
<1> DEFINE f == [i \in 1..1 |-> Amount(<<tx>>[i], call)]
<1>1. IsFiniteSet(1..1) /\ 1 \in 1..1 /\ (1..1) \ {1} = {} /\ Len(<<tx>>) = 1
  BY Finite
<1>2. f[1] = Amount(tx, call) /\ \A i \in 1..1 : f[i] \in Int
  BY AmountNat
<1>3. InLate(<<tx>>, call) = SumFunctionOnSet(f, 1..1)
  BY <1>1 DEF InLate
<1> HIDE DEF f
<1>4. SumFunctionOnSet(f, 1..1) = f[1] + SumFunctionOnSet(f, (1..1) \ {1})
  BY <1>1, <1>2, SumOnSplit
<1>5. SumFunctionOnSet(f, 1..1) = f[1]
  <2>1. SumFunctionOnSet(f, (1..1) \ {1}) = 0
    BY <1>1, SumOnEmpty
  <2> QED BY <1>2, <1>4, <2>1
<1>6. InLate(<<>>, call) = 0
  <2>1. 1..Len(<<>>) = {}
    OBVIOUS
  <2> QED BY <2>1, SumOnEmpty DEF InLate
<1> QED BY <1>2, <1>3, <1>5, <1>6

-----------------------------------------------------------------------------
(***************************************************************************)
(* The tracker's records.                                                  *)
(***************************************************************************)
\* What Filtered keeps, it keeps once: its positions number the set.
LEMMA FilteredOnce ==
  ASSUME NEW R, NEW recs \in Seq(R), NEW P \in SUBSET (1..Len(recs))
  PROVE  /\ Cardinality(P) \in Nat
         /\ Filtered(recs, P) \in Seq(R) /\ Len(Filtered(recs, P)) = Cardinality(P)
         /\ \E p \in [1..Cardinality(P) -> P] :
              /\ \A a, b \in 1..Cardinality(P) : p[a] = p[b] => a = b
              /\ \A a \in 1..Cardinality(P) : Filtered(recs, P)[a] = recs[p[a]]
<1> DEFINE m == Cardinality(P)
           Upto(i) == {q \in P : q <= i}
           Rank(i) == Cardinality(Upto(i))
           g == [i \in P |-> Rank(i)]
           Pick(n) == CHOOSE i \in P : Rank(i) = n
<1>1. Len(recs) \in Nat /\ IsFiniteSet(1..Len(recs)) /\ \A i \in P : i \in Nat \ {0}
  BY Finite
<1>2. IsFiniteSet(P) /\ m \in Nat
  BY <1>1, FS_Subset, FS_CardinalityType
<1>3. ASSUME NEW i \in P
      PROVE  IsFiniteSet(Upto(i)) /\ Rank(i) \in 1..m
  <2>1. Upto(i) \in SUBSET P /\ i \in Upto(i)
    BY <1>1
  <2> HIDE DEF Upto
  <2>2. IsFiniteSet(Upto(i)) /\ Rank(i) \in Nat /\ Rank(i) <= m
    BY <1>2, <2>1, FS_Subset, FS_CardinalityType
  <2>3. Rank(i) # 0
    BY <2>1, <2>2, FS_EmptySet
  <2> QED BY <1>2, <2>2, <2>3
<1>4. ASSUME NEW i \in P, NEW j \in P, i < j PROVE Rank(i) < Rank(j)
  <2>1. Upto(i) \cup {j} \in SUBSET Upto(j) /\ j \notin Upto(i)
    <3>1. i \in Nat /\ j \in Nat /\ \A q \in P : q \in Nat
      BY <1>1
    <3>2. \A q \in P : q <= i => q <= j
      BY <1>4, <3>1
    <3>3. ~(j <= i) /\ j <= j
      BY <1>4, <3>1
    <3> QED BY <3>2, <3>3
  <2> HIDE DEF Upto
  <2>2. IsFiniteSet(Upto(i)) /\ IsFiniteSet(Upto(j)) /\ Rank(i) \in Int /\ Rank(j) \in Int
    <3>1. /\ IsFiniteSet(Upto(i)) /\ IsFiniteSet(Upto(j))
          /\ Rank(i) \in 1..m /\ Rank(j) \in 1..m
      BY <1>3
    <3>2. m \in Nat
      BY <1>2
    <3> HIDE DEF m, Rank
    <3> QED BY <3>1, <3>2
  <2>3. Cardinality(Upto(i) \cup {j}) = Rank(i) + 1
    BY <2>1, <2>2, FS_AddElement
  <2>4. Cardinality(Upto(i) \cup {j}) <= Cardinality(Upto(j))
    BY ONLY <2>1, <2>2, FS_Subset
  <2> QED BY <2>2, <2>3, <2>4
<1>5. ASSUME NEW i \in P, NEW j \in P, Rank(i) = Rank(j) PROVE i = j
  <2> HIDE DEF Rank
  <2>1. Rank(i) \in Int /\ ~(Rank(i) < Rank(j)) /\ ~(Rank(j) < Rank(i))
    <3>1. Rank(i) \in 1..m /\ Rank(j) \in 1..m
      BY <1>3
    <3>2. m \in Nat
      BY <1>2
    <3> HIDE DEF m
    <3> QED BY <1>5, <3>1, <3>2
  <2>2. ~(i < j) /\ ~(j < i)
    BY <1>4, <2>1
  <2> QED BY <1>1, <2>2
<1> HIDE DEF Upto, Rank
<1>6. g \in Surjection(P, 1..m)
  <2>1. g \in Injection(P, 1..m)
    <3>1. g \in [P -> 1..m]
      BY <1>3
    <3>2. \A i, j \in P : g[i] = g[j] => i = j
      BY <1>5
    <3> QED BY <3>1, <3>2 DEF Injection, IsInjective
  <2>2. 1 \in Int /\ m \in Int /\ (IF 1 > m THEN 0 ELSE m - 1 + 1) = m
    BY <1>2
  <2> HIDE DEF g, m
  <2>3. IsFiniteSet(1..m) /\ Cardinality(1..m) = m
    BY <2>2, FS_Interval
  <2>4. Cardinality(P) = Cardinality(1..m)
    BY <2>3 DEF m
  <2> QED BY <2>1, <2>3, <2>4, FS_Injection
<1>7. ASSUME NEW n \in 1..m PROVE Pick(n) \in P /\ Rank(Pick(n)) = n
  <2>1. PICK i \in P : g[i] = n
    BY <1>6 DEF Surjection
  <2> QED BY <2>1
<1> DEFINE p == [n \in 1..m |-> Pick(n)]
<1>8. p \in [1..m -> P] /\ \A a, b \in 1..m : p[a] = p[b] => a = b
  <2>1. p \in [1..m -> P]
    BY <1>7
  <2>2. ASSUME NEW a \in 1..m, NEW b \in 1..m, p[a] = p[b] PROVE a = b
    <3>1. Rank(Pick(a)) = a /\ Rank(Pick(b)) = b /\ Pick(a) = Pick(b)
      BY <1>7, <2>2
    <3> HIDE DEF Pick
    <3> QED BY <3>1
  <2> QED BY <2>1, <2>2
<1>9. Filtered(recs, P) = [n \in 1..m |-> recs[p[n]]]
  <2>1. Filtered(recs, P) = [n \in 1..m |-> recs[Pick(n)]]
    BY Zenon DEF Filtered, Rank, Upto
  <2> HIDE DEF Pick
  <2> QED BY <2>1
<1> HIDE DEF p, m
<1>10. Filtered(recs, P) \in Seq(R) /\ Len(Filtered(recs, P)) = m
  <2>5. \A i \in P : recs[i] \in R
    OBVIOUS
  <2>1. \A n \in 1..m : recs[p[n]] \in R
    BY <1>8, <2>5
  <2>2. \A q \in [1..m -> R] : q \in Seq(R) /\ Len(q) = m
    BY <1>2
  <2> DEFINE kept == Filtered(recs, P)
  <2>3. kept \in [1..m -> R]
    BY <1>9, <2>1
  <2> HIDE DEF kept
  <2>4. kept \in Seq(R) /\ Len(kept) = m
    BY ONLY <2>2, <2>3
  <2> QED BY <2>4 DEF kept
<1> QED BY <1>2, <1>8, <1>9, <1>10 DEF m

\* A sum over what was kept is no more than the sum over all.
LEMMA KeptSum ==
  ASSUME NEW S, IsFiniteSet(S), NEW T, IsFiniteSet(T), NEW p \in [S -> T],
         \A a, b \in S : p[a] = p[b] => a = b,
         NEW f, \A i \in T : f[i] \in Nat,
         NEW h, \A a \in S : h[a] \in Nat /\ h[a] <= f[p[a]]
  PROVE  SumFunctionOnSet(h, S) <= SumFunctionOnSet(f, T)
<1> DEFINE k == [a \in S |-> f[p[a]]]
<1>1. \A x \in T : f[x] \in Int
  OBVIOUS
<1>2. \A a \in S : k[a] = f[p[a]]
  OBVIOUS
<1>3. \A a \in S : h[a] \in Int /\ k[a] \in Int /\ h[a] <= k[a]
  OBVIOUS
<1>4. {p[a] : a \in S} \in SUBSET T
  OBVIOUS
<1> HIDE DEF k
<1>5. SumFunctionOnSet(h, S) <= SumFunctionOnSet(k, S)
  BY <1>3, SumOnMono
<1>6. SumFunctionOnSet(k, S) = SumFunctionOnSet(f, {p[a] : a \in S})
  BY <1>1, <1>2, SumReindex
<1>7. SumFunctionOnSet(f, {p[a] : a \in S}) <= SumFunctionOnSet(f, T)
  BY <1>4, SumOnPart
<1>8. /\ SumFunctionOnSet(h, S) \in Int /\ SumFunctionOnSet(k, S) \in Int
      /\ SumFunctionOnSet(f, T) \in Int
  BY <1>1, <1>3, SumOnInt
<1> QED BY <1>5, <1>6, <1>7, <1>8

LEMMA RecordSums ==
  ASSUME NEW recs \in Seq(Record), NEW x \in Nat
  PROVE  /\ CompleteBy(recs, x) \in Nat /\ CompleteBy(<<>>, x) = 0
         /\ <<>> \in Seq(Record)
<1> DEFINE S == 1..Len(recs)
           f == [i \in S |-> IF recs[i].completeEra <= x THEN recs[i].amount ELSE 0]
<1>1. IsFiniteSet(S)
  BY Finite
<1>2. \A i \in S : f[i] \in Nat
  <2>1. \A i \in S : recs[i] \in Record
    OBVIOUS
  <2> QED BY <2>1 DEF Record
<1>3. CompleteBy(recs, x) = SumFunctionOnSet(f, S)
  BY DEF CompleteBy
<1> HIDE DEF f, S
<1>4. SumFunctionOnSet(f, S) \in Nat
  BY <1>1, <1>2, SumOnNat
<1>5. CompleteBy(<<>>, x) = 0
  <2>1. 1..Len(<<>>) = {}
    OBVIOUS
  <2> QED BY <2>1, SumOnEmpty DEF CompleteBy
<1> QED BY <1>3, <1>4, <1>5

LEMMA RecordAppended ==
  ASSUME NEW recs \in Seq(Record), NEW r \in Record, NEW x \in Nat
  PROVE  /\ Append(recs, r) \in Seq(Record)
         /\ CompleteBy(Append(recs, r), x) =
              CompleteBy(recs, x) + (IF r.completeEra <= x THEN r.amount ELSE 0)
<1> DEFINE n == Len(recs)
           recs2 == Append(recs, r)
           S == 1..n
           T == 1..(n + 1)
           Due(q) == IF q.completeEra <= x THEN q.amount ELSE 0
           f == [i \in S |-> Due(recs[i])]
           g == [i \in T |-> Due(recs2[i])]
           k == n + 1
<1>1. /\ n \in Nat /\ Len(recs2) = n + 1 /\ recs2 \in Seq(Record) /\ recs2[n + 1] = r
      /\ \A i \in 1..n : recs2[i] = recs[i] /\ recs[i] \in Record
  OBVIOUS
<1>2. \A q \in Record : Due(q) \in Nat
  BY DEF Record
<1> HIDE DEF Due, recs2
<1>3. T \ {k} = S /\ k \in T /\ S \subseteq T
  BY <1>1
<1>4. IsFiniteSet(T) /\ IsFiniteSet(S)
  BY <1>1, Finite
<1>5. \A i \in S : f[i] \in Int /\ g[i] = f[i]
  BY <1>1, <1>2, <1>3
<1>6. g[k] = Due(r) /\ Due(r) \in Int
  BY <1>1, <1>2, <1>3
<1>7. \A i \in T : g[i] \in Int
  BY <1>3, <1>5, <1>6
<1>8. /\ CompleteBy(recs, x) = SumFunctionOnSet(f, S)
      /\ CompleteBy(recs2, x) = SumFunctionOnSet(g, T)
  BY <1>1 DEF CompleteBy, Due
<1> HIDE DEF f, g, S, T, k
<1>9. SumFunctionOnSet(g, T) = g[k] + SumFunctionOnSet(g, T \ {k})
  BY <1>3, <1>4, <1>7, SumOnSplit
<1>10. SumFunctionOnSet(g, S) = SumFunctionOnSet(f, S)
  BY <1>4, <1>5, SumOnCong
<1>11. SumFunctionOnSet(f, S) \in Int
  BY <1>4, <1>5, SumOnInt
<1>12. CompleteBy(recs2, x) = CompleteBy(recs, x) + Due(r)
  <2>1. SumFunctionOnSet(g, T \ {k}) = SumFunctionOnSet(g, S)
    BY ONLY <1>3
  <2>2. SumFunctionOnSet(g, T) = Due(r) + SumFunctionOnSet(f, S)
    BY ONLY <2>1, <1>6, <1>9, <1>10
  <2> QED BY ONLY <2>2, <1>6, <1>8, <1>11
<1> QED BY <1>1, <1>12 DEF recs2, Due

\* Marking a record changes nothing of what the records say is complete.
LEMMA RecordMarked ==
  ASSUME NEW recs \in Seq(Record), NEW v, NEW amount, NEW x \in Nat
  PROVE  /\ MarkAsDeposited(recs, v, amount) \in Seq(Record)
         /\ CompleteBy(MarkAsDeposited(recs, v, amount), x) = CompleteBy(recs, x)
<1> DEFINE recs2 == MarkAsDeposited(recs, v, amount)
           S == 1..Len(recs)
           f == [i \in S |-> IF recs[i].completeEra <= x THEN recs[i].amount ELSE 0]
           g == [i \in S |-> IF recs2[i].completeEra <= x THEN recs2[i].amount ELSE 0]
<1>1. \/ recs2 = recs
      \/ \E first : recs2 = [recs EXCEPT ![first].deposited = TRUE]
  BY DEF MarkAsDeposited
<1>2. ASSUME NEW r \in Record
      PROVE  LET r2 == [r EXCEPT !.deposited = TRUE]
             IN  r2 \in Record /\ r2.completeEra = r.completeEra /\ r2.amount = r.amount
  BY DEF Record
<1>3. /\ recs2 \in Seq(Record) /\ Len(recs2) = Len(recs)
      /\ \A i \in S : recs2[i].completeEra = recs[i].completeEra /\ recs2[i].amount = recs[i].amount
  <2>1. CASE recs2 = recs
    <3> HIDE DEF recs2
    <3> QED BY <2>1
  <2>2. CASE \E first : recs2 = [recs EXCEPT ![first].deposited = TRUE]
    <3>1. PICK first : recs2 = [recs EXCEPT ![first].deposited = TRUE]
      BY <2>2
    <3> HIDE DEF recs2
    <3>2. DOMAIN recs = S /\ Len(recs) \in Nat /\ \A i \in S : recs[i] \in Record
      OBVIOUS
    <3>3. DOMAIN recs2 = S
      BY <3>1, <3>2
    <3>4. \A i \in S : \/ recs2[i] = recs[i]
                       \/ recs2[i] = [recs[i] EXCEPT !.deposited = TRUE]
      BY <3>1, <3>2
    <3>5. \A i \in S : /\ recs2[i] \in Record
                       /\ recs2[i].completeEra = recs[i].completeEra
                       /\ recs2[i].amount = recs[i].amount
      BY <1>2, <3>2, <3>4
    <3>6. recs2 \in [S -> Record]
      <4>1. recs2 = [i \in S |-> recs2[i]]
        BY <3>1, <3>2
      <4> QED BY <3>5, <4>1
    <3>7. recs2 \in Seq(Record) /\ Len(recs2) = Len(recs)
      <4>1. \A n \in Nat : \A q \in [1..n -> Record] : q \in Seq(Record) /\ Len(q) = n
        OBVIOUS
      <4> QED BY <3>2, <3>6, <4>1
    <3> QED BY <3>5, <3>7
  <2> QED BY <1>1, <2>1, <2>2
<1>4. IsFiniteSet(S) /\ \A i \in S : f[i] = g[i]
  BY <1>3, Finite
<1>5. /\ CompleteBy(recs, x) = SumFunctionOnSet(f, S)
      /\ CompleteBy(recs2, x) = SumFunctionOnSet(g, S)
  BY <1>3 DEF CompleteBy
<1> HIDE DEF f, g, S, recs2
<1>6. SumFunctionOnSet(f, S) = SumFunctionOnSet(g, S)
  BY <1>4, SumOnCong
<1> QED BY <1>3, <1>5, <1>6 DEF recs2

\* What is cleaned up counts no more.
LEMMA RecordsCleaned ==
  ASSUME NEW recs \in Seq(Record), NEW x \in Nat
  PROVE  /\ CleanupOldRecords(recs) \in Seq(Record)
         /\ CompleteBy(CleanupOldRecords(recs), x) <= CompleteBy(recs, x)
<1> DEFINE P == {i \in DOMAIN recs : \/ ~recs[i].deposited
                                     \/ recs[i].startEra + KEEP_ERAS > network_era}
           kept == Filtered(recs, P)
           n == Len(recs)
           m == Cardinality(P)
           f == [i \in 1..n |-> IF recs[i].completeEra <= x THEN recs[i].amount ELSE 0]
           h == [i \in 1..m |-> IF kept[i].completeEra <= x THEN kept[i].amount ELSE 0]
<1>1. P \in SUBSET (1..n) /\ CleanupOldRecords(recs) = kept /\ n \in Nat
  BY DEF CleanupOldRecords
<1> HIDE DEF P
<1>2. /\ m \in Nat /\ kept \in Seq(Record) /\ Len(kept) = m
      /\ \E p \in [1..m -> P] : /\ \A a, b \in 1..m : p[a] = p[b] => a = b
                                /\ \A a \in 1..m : kept[a] = recs[p[a]]
  BY <1>1, FilteredOnce
<1>3. PICK p \in [1..m -> P] : /\ \A a, b \in 1..m : p[a] = p[b] => a = b
                               /\ \A a \in 1..m : kept[a] = recs[p[a]]
  BY <1>2
<1>4. \A i \in 1..n : f[i] \in Nat
  <2>1. \A i \in 1..n : recs[i] \in Record
    OBVIOUS
  <2> QED BY <2>1 DEF Record
<1>5. p \in [1..m -> 1..n]
  BY <1>1, <1>3
<1>6. /\ CompleteBy(recs, x) = SumFunctionOnSet(f, 1..n)
      /\ CompleteBy(kept, x) = SumFunctionOnSet(h, 1..m)
  BY <1>2 DEF CompleteBy
<1>7. \A a \in 1..m : h[a] = f[p[a]]
  <2> HIDE DEF kept
  <2> QED BY <1>3, <1>5
<1> HIDE DEF f, h, kept, n, m
<1>8. \A a \in 1..m : h[a] \in Nat /\ h[a] <= f[p[a]]
  BY <1>4, <1>5, <1>7
<1>9. IsFiniteSet(1..m) /\ IsFiniteSet(1..n)
  BY <1>1, <1>2, Finite
<1>10. \A a, b \in 1..m : p[a] = p[b] => a = b
  BY <1>3
<1>11. SumFunctionOnSet(h, 1..m) <= SumFunctionOnSet(f, 1..n)
  <2> DEFINE S == 1..m
             T == 1..n
  <2> HIDE DEF S, T
  <2>1. IsFiniteSet(S) /\ IsFiniteSet(T) /\ p \in [S -> T]
    BY <1>5, <1>9 DEF S, T
  <2>2. (\A a, b \in S : p[a] = p[b] => a = b) /\ \A i \in T : f[i] \in Nat
    BY <1>4, <1>10 DEF S, T
  <2>3. \A a \in S : h[a] \in Nat /\ h[a] <= f[p[a]]
    BY <1>8 DEF S
  <2>4. SumFunctionOnSet(h, S) <= SumFunctionOnSet(f, T)
    BY ONLY <2>1, <2>2, <2>3, KeptSum
  <2> QED BY <2>4 DEF S, T
<1> QED BY <1>1, <1>2, <1>6, <1>11

\* What is ready for deposit is complete by this era.
LEMMA ReadySum ==
  ASSUME records \in Seq(Record), network_era \in Nat
  PROVE  /\ GetReadyUnbondings \in Seq(Record)
         /\ SumFunction([i \in DOMAIN GetReadyUnbondings |-> GetReadyUnbondings[i].amount]) \in Nat
         /\ SumFunction([i \in DOMAIN GetReadyUnbondings |-> GetReadyUnbondings[i].amount])
              <= CompleteBy(records, network_era)
<1> DEFINE P == {i \in DOMAIN records : IsReady(records[i])}
           ready == Filtered(records, P)
           n == Len(records)
           m == Cardinality(P)
           f == [i \in 1..n |-> IF records[i].completeEra <= network_era
                                THEN records[i].amount ELSE 0]
           h == [i \in 1..m |-> ready[i].amount]
<1>1. /\ P \in SUBSET (1..n) /\ GetReadyUnbondings = ready /\ n \in Nat
      /\ \A i \in P : records[i].completeEra <= network_era
  BY DEF GetReadyUnbondings, IsReady
<1> HIDE DEF P
<1>2. /\ m \in Nat /\ ready \in Seq(Record) /\ Len(ready) = m
      /\ \E p \in [1..m -> P] : /\ \A a, b \in 1..m : p[a] = p[b] => a = b
                                /\ \A a \in 1..m : ready[a] = records[p[a]]
  <2>1. records \in Seq(Record) /\ P \in SUBSET (1..Len(records))
    BY <1>1
  <2> QED BY ONLY <2>1, FilteredOnce
<1>3. PICK p \in [1..m -> P] : /\ \A a, b \in 1..m : p[a] = p[b] => a = b
                               /\ \A a \in 1..m : ready[a] = records[p[a]]
  BY <1>2
<1>4. \A i \in 1..n : f[i] \in Nat
  <2>1. \A i \in 1..n : records[i] \in Record
    OBVIOUS
  <2> QED BY <2>1 DEF Record
<1>5. p \in [1..m -> 1..n]
  BY <1>1, <1>3
<1>6. SumFunction([i \in DOMAIN ready |-> ready[i].amount]) = SumFunctionOnSet(h, 1..m)
  <2> HIDE DEF ready, m
  <2>1. DOMAIN ready = 1..m
    BY <1>2
  <2>2. [i \in DOMAIN ready |-> ready[i].amount] = h /\ DOMAIN h = 1..m
    BY <2>1
  <2> HIDE DEF h
  <2> QED BY <2>2 DEF SumFunction
<1>7. \A a \in 1..m : h[a] = f[p[a]]
  <2> HIDE DEF ready
  <2>1. \A a \in 1..m : p[a] \in P /\ p[a] \in 1..n
    BY <1>3, <1>5
  <2> QED BY <1>1, <1>3, <2>1
<1> HIDE DEF f, h, ready, n, m
<1>8. \A a \in 1..m : h[a] \in Nat /\ h[a] <= f[p[a]]
  BY <1>4, <1>5, <1>7
<1>9. IsFiniteSet(1..m) /\ IsFiniteSet(1..n)
  BY <1>1, <1>2, Finite
<1>11. SumFunctionOnSet(h, 1..m) <= SumFunctionOnSet(f, 1..n)
  <2> DEFINE S == 1..m
             T == 1..n
  <2> HIDE DEF S, T
  <2>1. IsFiniteSet(S) /\ IsFiniteSet(T) /\ p \in [S -> T]
    BY <1>5, <1>9 DEF S, T
  <2>2. (\A a, b \in S : p[a] = p[b] => a = b) /\ \A i \in T : f[i] \in Nat
    BY <1>3, <1>4 DEF S, T
  <2>3. \A a \in S : h[a] \in Nat /\ h[a] <= f[p[a]]
    BY <1>8 DEF S
  <2>4. SumFunctionOnSet(h, S) <= SumFunctionOnSet(f, T)
    BY ONLY <2>1, <2>2, <2>3, KeptSum
  <2> QED BY <2>4 DEF S, T
<1>12. CompleteBy(records, network_era) = SumFunctionOnSet(f, 1..n)
  BY DEF CompleteBy, f, n
<1>13. SumFunctionOnSet(h, 1..m) \in Nat
  BY <1>8, <1>9, SumOnNat
<1> QED BY <1>1, <1>2, <1>6, <1>11, <1>12, <1>13

-----------------------------------------------------------------------------
(***************************************************************************)
(* What a handler starts with.                                             *)
(***************************************************************************)
\* The calls that follow another call of the same entry.
Later == {"delegate", "confirm_delegation", "confirm_undelegation"}

\* A handler that has just sent an entry's first transaction, or none; if it
\* harvests, it reports at most w.
Starting(job, w) ==
  /\ job \in Job
  /\ \A call \in Later : Amount(job.tx, call) = 0 /\ Waited(job, call) = 0
  /\ ~job.executed
  /\ Amount(job.tx, "harvest_rewards") <= w

\* The lists of a phase.
IsList(phase, entries, w) ==
  \/ entries = <<>>
  \/ phase # "harvest" /\ entries \in Seq(Entry)
  \/ phase = "harvest" /\ \E t \in Nat, e \in Nat : t <= w /\ entries = <<[amount |-> t, era |-> e]>>

LEMMA WorkingStarts ==
  ASSUME NEW phases \in Seq(Phases), phases # <<>>, NEW w \in Nat,
         NEW entries, IsList(Head(phases), entries, w)
  PROVE  Starting(Working(phases, entries), w)
<1> DEFINE job == Working(phases, entries)
<1>1. CASE entries = <<>>
  <2>1. Tail(phases) \in Seq(Phases)
    OBVIOUS
  <2>2. job = [phases |-> Tail(phases), left |-> <<>>, tx |-> NoTx, executed |-> FALSE]
    BY <1>1 DEF Working, Idle
  <2> HIDE DEF job
  <2>3. job \in Job
    BY <2>1, <2>2 DEF Job
  <2>4. /\ \A call \in Later : Amount(job.tx, call) = 0
        /\ Amount(job.tx, "harvest_rewards") = 0
    BY <2>2 DEF Amount, NoTx, Later
  <2>5. \A call \in Later : Waited(job, call) = 0
    BY <2>2 DEF Waited, IsWaiting
  <2>6. ~job.executed /\ Amount(job.tx, "harvest_rewards") <= w
    BY <2>2, <2>4
  <2>7. Starting(job, w)
    BY <2>3, <2>4, <2>5, <2>6 DEF Starting
  <2> QED BY <2>7 DEF job
<1>2. CASE entries # <<>>
  <2> DEFINE phase == Head(phases)
             entry == Head(entries)
             left == Tail(entries)
             tx == [call |-> FirstCall[phase], entry |-> entry]
  <2>1. phase \in Phases
    OBVIOUS
  <2>2. job = [phases |-> phases, left |-> left, executed |-> FALSE, tx |-> tx]
    BY <1>2 DEF Working
  <2>3. /\ left \in Seq(Entry) /\ (phase = "harvest" => left = <<>>)
        /\ phase # "harvest" => entry \in Entry
        /\ phase = "harvest" => entry \in [amount : Nat, era : Nat] /\ entry.amount <= w
    <3>1. CASE phase # "harvest" /\ entries \in Seq(Entry)
      BY <1>2, <3>1
    <3>2. CASE phase = "harvest" /\ \E t \in Nat, e \in Nat :
                  t <= w /\ entries = <<[amount |-> t, era |-> e]>>
      BY <3>2
    <3> QED BY <1>2, <3>1, <3>2 DEF IsList
  <2>4. /\ FirstCall[phase] \notin Later /\ FirstCall[phase] # "none"
        /\ FirstCall[phase] \in Calls \cup {"harvest_rewards"}
        /\ FirstCall[phase] = "harvest_rewards" <=> phase = "harvest"
    BY <2>1 DEF Phases, FirstCall, Calls, Later
  <2>5. tx \in Txs /\ tx.call = FirstCall[phase] /\ tx.entry = entry
    BY <2>3, <2>4 DEF Txs
  <2> HIDE DEF tx, entry, left, job
  <2>6. tx # NoTx
    BY <2>5 DEF Txs, NoTx, Calls
  <2>7. job \in Job
    BY <2>2, <2>3, <2>5, <2>6 DEF Job, phase
  <2>8. \A call \in Later : Amount(job.tx, call) = 0
    BY <2>2, <2>4, <2>5 DEF Amount
  <2>9. \A call \in Later : Waited(job, call) = 0
    BY <2>8 DEF Waited
  <2>10. Amount(job.tx, "harvest_rewards") <= w
    BY <2>2, <2>3, <2>4, <2>5 DEF Amount
  <2>11. Starting(job, w)
    BY <2>2, <2>7, <2>8, <2>9, <2>10 DEF Starting
  <2> QED BY <2>11 DEF job
<1> QED BY <1>1, <1>2

LEMMA NextStarts ==
  ASSUME NEW job \in Job, job.tx # NoTx, NEW w \in Nat
  PROVE  Starting(NextEntry(job), w)
<1>1. job.phases \in Seq(Phases) /\ job.phases # <<>>
  BY JobParts
<1>2. IsList(Head(job.phases), job.left, w)
  BY JobParts DEF IsList
<1> QED BY <1>1, <1>2, WorkingStarts DEF NextEntry

LEMMA QueryLists ==
  ASSUME NEW phase \in {"delegations", "undelegations"},
         NEW entries \in {Query} \cup Lists[phase]
  PROVE  entries \in Seq(Entry)
<1>1. CASE entries = Query
  <2>1. <<>> \in Seq(Entry)
    OBVIOUS
  <2> QED BY <1>1, <2>1 DEF Query
<1>2. CASE entries \in Lists[phase]
  <2>1. \A list \in Lists[phase] : list \in Seq([v : Validators, amount : Nat])
    BY KeeperAssumption
  <2> QED BY <1>2, <2>1 DEF Entry
<1> QED BY <1>1, <1>2

LEMMA PhaseLists ==
  ASSUME IInv, WorkerTypes, NEW phase \in Phases, NEW w \in Nat, SumFunction(delegated) <= w,
         NEW entries \in Entries(phase) \cup EntriesOfFailure(phase)
  PROVE  IsList(phase, entries, w)
<1>1. /\ network_era \in Nat \ {0} /\ records \in Seq(Record)
      /\ IsPendingList(pending_delegations) /\ IsPendingList(pending_undelegations)
  BY KeeperAssumption DEF WorkerTypes, IInv, TypeOK
<1>2. ASSUME NEW t \in Nat, t <= w, entries \in Harvests(t), phase = "harvest"
      PROVE  IsList(phase, entries, w)
  <2>1. PICK e \in {network_era - 1, network_era} \ {0} :
          entries = <<[amount |-> t, era |-> e]>>
    BY <1>2 DEF Harvests
  <2>2. e \in Nat
    BY <1>1
  <2> QED BY <1>2, <2>1, <2>2 DEF IsList
<1>3. CASE entries \in EntriesOfFailure(phase)
  <2>1. CASE phase = "harvest"
    <3>1. entries \in Harvests(0)
      BY <1>3, <2>1 DEF EntriesOfFailure
    <3>2. 0 \in Nat /\ 0 <= w
      OBVIOUS
    <3> QED BY <1>2, <2>1, <3>1, <3>2
  <2>2. CASE phase # "harvest"
    BY <1>3, <2>2 DEF EntriesOfFailure, Phases, IsList
  <2> QED BY <2>1, <2>2
<1>4. CASE entries \in Entries(phase)
  <2>1. CASE phase = "delegations"
    <3>1. PICK list \in {Query} \cup Lists["delegations"] : entries = list \o <<>>
      BY <1>4, <2>1 DEF Entries, LegacyFinds
    <3>2. list \in Seq(Entry)
      BY QueryLists
    <3>3. entries \in Seq(Entry)
      BY <3>1, <3>2
    <3> QED BY <2>1, <3>3 DEF IsList
  <2>2. CASE phase = "undelegations"
    <3>1. entries \in {Query} \cup Lists["undelegations"]
      BY <1>4, <2>2 DEF Entries
    <3>2. entries \in Seq(Entry)
      BY <3>1, QueryLists
    <3> QED BY <2>2, <3>2 DEF IsList
  <2>3. CASE phase = "deposits"
    <3> DEFINE ready == GetReadyUnbondings
    <3>1. entries = [i \in DOMAIN ready |-> [v |-> ready[i].validator, amount |-> ready[i].amount]]
      BY <1>4, <2>3 DEF Entries
    <3>2. ready \in Seq(Record)
      BY <1>1, ReadySum
    <3> HIDE DEF ready
    <3>3. Len(ready) \in Nat /\ DOMAIN ready = 1..Len(ready)
          /\ \A i \in 1..Len(ready) : ready[i] \in Record
      BY <3>2
    <3>4. \A r \in Record : [v |-> r.validator, amount |-> r.amount] \in Entry
      BY DEF Record, Entry
    <3> DEFINE n == Len(ready)
               of(r) == [v |-> r.validator, amount |-> r.amount]
    <3>5. entries = [i \in 1..n |-> of(ready[i])] /\ n \in Nat
          /\ \A i \in 1..n : of(ready[i]) \in Entry
      BY <3>1, <3>3, <3>4
    <3> HIDE DEF n, of
    <3>6. entries \in [1..n -> Entry]
      BY <3>5
    <3>7. \A q \in [1..n -> Entry] : q \in Seq(Entry)
      BY <3>5
    <3>8. entries \in Seq(Entry)
      BY <3>6, <3>7
    <3> QED BY <2>3, <3>8 DEF IsList
  <2>4. CASE phase = "harvest"
    <3>1. entries \in Harvests(SumFunction(delegated))
      BY <1>4, <2>4 DEF Entries, TotalDelegation
    <3>2. SumFunction(delegated) \in Nat
      BY Finite, SumLedger DEF WorkerTypes
    <3> QED BY <1>2, <2>4, <3>1, <3>2
  <2> QED BY <2>1, <2>2, <2>3, <2>4 DEF Phases
<1> QED BY <1>3, <1>4

-----------------------------------------------------------------------------
(***************************************************************************)
(* What a handler makes of a transaction that was executed.                *)
(***************************************************************************)
\* What it waits for next it has the amount of from the transaction before.
Follows(tx, new, w) ==
  /\ new \in Job
  /\ Waited(new, "confirm_delegation") <= Amount(tx, "delegate")
  /\ Waited(new, "confirm_undelegation") <= Amount(tx, "undelegate")
  /\ Waited(new, "delegate") <= Amount(tx, "withdraw_for_delegation")
  /\ Amount(new.tx, "confirm_undelegation")
       <= Amount(tx, "confirm_undelegation") + Amount(tx, "undelegate")
  /\ Amount(new.tx, "harvest_rewards") <= w

LEMMA SuccessFollows ==
  ASSUME NEW job \in Job, IsWaiting(job), NEW w \in Nat, NEW new,
         \/ job.tx.call \in DOMAIN NextCall /\ new = [job EXCEPT !.tx.call = NextCall[@]]
         \/ job.tx.call \in Recorded /\ new = [job EXCEPT !.executed = TRUE]
         \/ new = NextEntry(job)
  PROVE  Follows(job.tx, new, w)
<1> DEFINE tx == job.tx
           cd == "confirm_delegation"
           cu == "confirm_undelegation"
           hr == "harvest_rewards"
<1>1. tx \in Txs /\ tx # NoTx /\ ~job.executed
  BY JobParts DEF IsWaiting
<1>2. \A call \in {"delegate", "undelegate", "withdraw_for_delegation", cu} :
        Amount(tx, call) \in Nat
  BY <1>1, AmountNat
<1>3. CASE tx.call \in DOMAIN NextCall /\ new = [job EXCEPT !.tx.call = NextCall[@]]
  <2> DEFINE tx2 == [tx EXCEPT !.call = NextCall[@]]
  <2>1. tx.call \in {"withdraw_for_delegation", "delegate", "undelegate"}
    BY <1>3 DEF NextCall
  <2>2. tx \in [call : Calls, entry : Entry]
    BY <1>1, <2>1 DEF Txs
  <2>3. tx2 \in Txs /\ tx2.entry = tx.entry /\ tx2.call = NextCall[tx.call]
    BY <2>1, <2>2 DEF Txs, NextCall, Calls
  <2>4. new = [job EXCEPT !.tx = tx2]
    BY <1>3
  <2> HIDE DEF tx2
  <2>5. new = [phases |-> job.phases, left |-> job.left, tx |-> tx2, executed |-> job.executed]
    BY <2>4 DEF Job
  <2>6. tx2 # NoTx
    BY <2>3 DEF Txs, NoTx, Calls
  <2>7. new \in Job /\ new.tx = tx2
    BY <1>1, <2>3, <2>5, <2>6, JobParts DEF Job
  <2>8. tx2.entry.amount = tx.entry.amount /\ tx.entry.amount \in Nat
    BY <2>2, <2>3 DEF Entry
  <2>9. \A call \in {cd, cu, "delegate"} : Waited(new, call) \in {0, Amount(tx2, call)}
    BY <2>7 DEF Waited
  <2>10. \/ tx.call = "withdraw_for_delegation" /\ tx2.call = "delegate"
         \/ tx.call = "delegate" /\ tx2.call = cd
         \/ tx.call = "undelegate" /\ tx2.call = cu
    BY <2>1, <2>3 DEF NextCall
  <2>11. /\ Amount(tx2, cd) = Amount(tx, "delegate")
         /\ Amount(tx2, cu) = Amount(tx, "undelegate")
         /\ Amount(tx2, "delegate") = Amount(tx, "withdraw_for_delegation")
         /\ Amount(tx2, hr) = 0
    BY <2>8, <2>10 DEF Amount
  <2> QED BY <1>2, <2>7, <2>9, <2>11 DEF Follows
<1>4. CASE tx.call \in Recorded /\ new = [job EXCEPT !.executed = TRUE]
  <2>1. new = [job EXCEPT !.executed = TRUE]
    BY <1>4
  <2>2. new = [phases |-> job.phases, left |-> job.left, tx |-> tx, executed |-> TRUE]
    BY <2>1 DEF Job
  <2>3. new \in Job /\ new.tx = tx
    BY <1>1, <1>4, <2>2, JobParts DEF Job
  <2>4. \A call : Waited(new, call) = 0
    BY <2>2 DEF Waited, IsWaiting
  <2>5. Amount(tx, hr) = 0
    BY <1>4 DEF Recorded, Amount
  <2> QED BY <1>2, <2>3, <2>4, <2>5 DEF Follows
<1>5. CASE new = NextEntry(job)
  <2>1. new = NextEntry(job)
    BY <1>5
  <2>2. Starting(new, w)
    BY <1>1, <2>1, NextStarts
  <2>3. /\ new \in Job /\ Amount(new.tx, hr) <= w
        /\ Waited(new, cd) = 0 /\ Waited(new, cu) = 0 /\ Waited(new, "delegate") = 0
        /\ Amount(new.tx, cu) = 0
    BY <2>2 DEF Starting, Later
  <2> QED BY <1>2, <2>3 DEF Follows
<1> QED BY <1>3, <1>4, <1>5

LEMMA AfterSuccess ==
  ASSUME NEW job \in Job, IsWaiting(job), NEW w \in Nat
  PROVE  Follows(job.tx, After(job, TRUE), w)
<1>1. \/ job.tx.call \in DOMAIN NextCall /\ After(job, TRUE) = [job EXCEPT !.tx.call = NextCall[@]]
      \/ job.tx.call \in Recorded /\ After(job, TRUE) = [job EXCEPT !.executed = TRUE]
      \/ After(job, TRUE) = NextEntry(job)
  BY Zenon DEF After
<1> QED BY <1>1, SuccessFollows, Zenon

-----------------------------------------------------------------------------
(***************************************************************************)
(* The invariant.                                                          *)
(***************************************************************************)
Wealth == keeper_funds + SumFunction(delegated) + SumFunction(unbonding)

\* A confirmation that may still be executed is of CSPR that has been delegated
\* or undelegated, once for each.
Honest ==
  /\ Principal + Requested - SumFunction(pending_delegations) + Outstanding("confirm_delegation")
       <= executed.delegate
  /\ Requested - SumFunction(pending_undelegations) + Outstanding("confirm_undelegation")
       <= executed.undelegate

\* By any era what the records, as they are or as they were saved, say is
\* complete by it, and what handlers will still record, will be in the account,
\* with all that it may have to pay for delegations.
Backed ==
  \A recs \in {records, file}, x \in Nat : x >= network_era =>
    CompleteBy(recs, x) + (IF x >= network_era + UNBONDING_PERIOD THEN ToRecord(jobs) ELSE 0)
      <= keeper_funds - Outstanding("delegate") + ReleasedBy(unbonding, x)

\* A total that may still be reported is no more than what there is.
Earned ==
  /\ total_staked + total_pending_withdrawal <= purse + Wealth
  /\ \A j \in Jobs : Amount(jobs[j].tx, "harvest_rewards") <= Wealth
  /\ \A i \in 1..Len(late) : Amount(late[i], "harvest_rewards") <= Wealth

WorkerInv == IInv /\ WorkerTypes /\ Honest /\ Backed /\ Earned

\* What is released by an era, when an amount will be released in another.
LEMMA Released ==
  ASSUME NEW u \in [Eras -> Nat], NEW x \in Nat
  PROVE  /\ SumFunction(u) \in Nat /\ ReleasedBy(u, x) \in Nat
         /\ x >= MaxEra + AUCTION_DELAY => ReleasedBy(u, x) = SumFunction(u)
<1> DEFINE f == [e \in Eras |-> IF e <= x THEN u[e] ELSE 0]
<1>1. IsFiniteSet(Eras) /\ DOMAIN u = Eras /\ \A e \in Eras : f[e] \in Nat
  BY Finite
<1>2. ReleasedBy(u, x) = SumFunctionOnSet(f, Eras)
  BY DEF ReleasedBy
<1>3. SumFunction(u) \in Nat
  BY <1>1, SumLedger
<1>4. ASSUME x >= MaxEra + AUCTION_DELAY PROVE \A e \in Eras : f[e] = u[e]
  <2>1. MaxEra + AUCTION_DELAY \in Nat /\ \A e \in Eras : e \in Int /\ e <= MaxEra + AUCTION_DELAY
    BY KeeperAssumption DEF Eras
  <2>2. \A e \in Eras : e <= x
    BY <1>4, <2>1
  <2> QED BY <2>2
<1> HIDE DEF f
<1>5. SumFunctionOnSet(f, Eras) \in Nat
  BY <1>1, SumOnNat
<1>6. ASSUME x >= MaxEra + AUCTION_DELAY PROVE ReleasedBy(u, x) = SumFunction(u)
  <2>1. SumFunctionOnSet(f, Eras) = SumFunctionOnSet(u, Eras)
    BY <1>1, <1>4, <1>6, SumOnCong
  <2> QED BY <1>1, <1>2, <2>1 DEF SumFunction
<1> QED BY <1>2, <1>3, <1>5, <1>6

LEMMA ReleasedMore ==
  ASSUME NEW u \in [Eras -> Nat], NEW u2 \in [Eras -> Nat], NEW e \in Eras, NEW d \in Int,
         u2[e] = u[e] + d, \A k \in Eras : k # e => u2[k] = u[k], NEW x \in Nat
  PROVE  /\ SumFunction(u2) = SumFunction(u) + d
         /\ ReleasedBy(u2, x) = ReleasedBy(u, x) + (IF e <= x THEN d ELSE 0)
<1> DEFINE f == [k \in Eras |-> IF k <= x THEN u[k] ELSE 0]
           g == [k \in Eras |-> IF k <= x THEN u2[k] ELSE 0]
<1>1. /\ IsFiniteSet(Eras) /\ u2 \in [Eras -> Nat] /\ u2[e] = u[e] + d
      /\ \A k \in Eras : k # e => u2[k] = u[k]
  BY Finite
<1>2. SumFunction(u2) = SumFunction(u) + d
  <2>1. u \in [Eras -> Nat] /\ e \in Eras /\ d \in Int
    OBVIOUS
  <2> QED BY ONLY <1>1, <2>1, SumCredit
<1>3. \A k \in Eras : f[k] \in Int /\ g[k] \in Int
  BY <1>1
<1>4. \A k \in Eras : k # e => g[k] = f[k]
  BY <1>1
<1>5. g[e] - f[e] = IF e <= x THEN d ELSE 0
  BY <1>1
<1>6. ReleasedBy(u, x) = SumFunctionOnSet(f, Eras) /\ ReleasedBy(u2, x) = SumFunctionOnSet(g, Eras)
  BY DEF ReleasedBy
<1> HIDE DEF f, g
<1>7. SumFunctionOnSet(g, Eras) =
        SumFunctionOnSet(f, Eras) + (IF e \in Eras THEN g[e] - f[e] ELSE 0)
  BY <1>1, <1>3, <1>4, SumOnChange
<1> QED BY <1>1, <1>2, <1>5, <1>6, <1>7

\* The numbers the invariant compares are numbers.
LEMMA Numbers ==
  ASSUME IInv, WorkerTypes
  PROVE  /\ Principal \in Nat /\ Requested \in Nat
         /\ SumFunction(pending_delegations) \in Nat
         /\ SumFunction(pending_undelegations) \in Nat
         /\ executed.delegate \in Nat /\ executed.undelegate \in Nat
         /\ SumFunction(delegated) \in Nat /\ SumFunction(unbonding) \in Nat
         /\ keeper_funds \in Int /\ Wealth \in Int /\ purse \in Nat
         /\ total_staked \in Nat /\ total_pending_withdrawal \in Nat
         /\ network_era \in Nat /\ ToRecord(jobs) \in Nat
         /\ \A call : call # "none" =>
              InJobs(jobs, call) \in Nat /\ InLate(late, call) \in Nat /\ Outstanding(call) \in Nat
<1>1. Principal \in Nat
  BY Finiteness, SumLedger DEF IInv, TypeOK, Principal
<1>2. Requested \in Nat
  <2> DEFINE f == [id \in DOMAIN withdrawal_requests |-> withdrawal_requests[id].amount]
  <2>1. RequestIds = 1..(next_request_id - 1) /\ next_request_id - 1 \in Nat
    BY DEF IInv, TypeOK, RequestIds
  <2>2. withdrawal_requests \in [RequestIds -> Requests] /\ IsFiniteSet(RequestIds)
    BY <2>1, Finite DEF IInv, TypeOK
  <2>3. f \in [RequestIds -> Nat]
    BY <2>2 DEF Requests
  <2> HIDE DEF f
  <2>4. SumFunction(f) \in Nat
    BY <2>2, <2>3, SumLedger
  <2> QED BY <2>4 DEF Requested, f
<1>3. SumFunction(pending_delegations) \in Nat /\ SumFunction(pending_undelegations) \in Nat
  BY PendingFinite DEF IInv, TypeOK
<1>4. executed.delegate \in Nat /\ executed.undelegate \in Nat
  BY DEF WorkerTypes
<1>5. SumFunction(delegated) \in Nat /\ SumFunction(unbonding) \in Nat
  BY Finite, SumLedger DEF WorkerTypes
<1>6. keeper_funds \in Int /\ Wealth \in Int
  BY <1>5 DEF WorkerTypes, Wealth
<1>7. /\ purse \in Nat /\ total_staked \in Nat /\ total_pending_withdrawal \in Nat
      /\ network_era \in Nat
  BY DEF IInv, TypeOK
<1>8. ToRecord(jobs) \in Nat
  BY InJobsNat DEF WorkerTypes
<1>9. ASSUME NEW call, call # "none"
      PROVE  InJobs(jobs, call) \in Nat /\ InLate(late, call) \in Nat /\ Outstanding(call) \in Nat
  <2>1. InJobs(jobs, call) \in Nat
    BY <1>9, InJobsNat DEF WorkerTypes
  <2>2. InLate(late, call) \in Nat
    BY <1>9, LateNat DEF WorkerTypes
  <2> QED BY <2>1, <2>2 DEF Outstanding
<1> QED BY <1>1, <1>2, <1>3, <1>4, <1>5, <1>6, <1>7, <1>8, <1>9

\* The account and the auction together hold something, whatever the account
\* alone may be short of.
LEMMA WealthNat ==
  ASSUME WorkerInv
  PROVE  Wealth \in Nat /\ SumFunction(delegated) <= Wealth
<1> DEFINE x == MaxEra + AUCTION_DELAY
<1>1. x \in Nat /\ x >= network_era
  BY KeeperAssumption DEF WorkerInv, WorkerTypes
<1>2. ReleasedBy(unbonding, x) = SumFunction(unbonding)
  BY <1>1, Released DEF WorkerInv, WorkerTypes
<1>3. CompleteBy(records, x) \in Nat
  BY <1>1, RecordSums DEF WorkerInv, WorkerTypes
<1>4. CompleteBy(records, x)
        + (IF x >= network_era + UNBONDING_PERIOD THEN ToRecord(jobs) ELSE 0)
        <= keeper_funds - Outstanding("delegate") + ReleasedBy(unbonding, x)
  BY <1>1 DEF WorkerInv, Backed
<1>5. /\ ToRecord(jobs) \in Nat /\ Outstanding("delegate") \in Nat
      /\ keeper_funds \in Int /\ SumFunction(unbonding) \in Nat /\ SumFunction(delegated) \in Nat
  BY Numbers DEF WorkerInv
<1> HIDE DEF x
<1>6. 0 <= keeper_funds + SumFunction(unbonding)
  <2>1. (IF x >= network_era + UNBONDING_PERIOD THEN ToRecord(jobs) ELSE 0) \in Nat
    BY <1>5
  <2> QED BY <1>2, <1>3, <1>4, <1>5, <2>1
<1> QED BY <1>5, <1>6 DEF Wealth

-----------------------------------------------------------------------------
(***************************************************************************)
(* What the execution of a transaction does to the numbers.                *)
(***************************************************************************)
\* In the contract: it pays for a withdrawal, shortens its queues by no more
\* than is confirmed, and adds rewards up to the reported total.
ContractAfter(tx) ==
  /\ IInv'
  /\ Principal' = Principal /\ Requested' = Requested
  /\ SumFunction(pending_delegations')
       >= SumFunction(pending_delegations) - Amount(tx, "confirm_delegation")
  /\ SumFunction(pending_undelegations')
       >= SumFunction(pending_undelegations) - Amount(tx, "confirm_undelegation")
  /\ purse' = purse - Amount(tx, "withdraw_for_delegation")
  /\ total_pending_withdrawal' = total_pending_withdrawal
  /\ \/ total_staked' = total_staked
     \/ total_staked' + total_pending_withdrawal <= Amount(tx, "harvest_rewards")
  /\ network_era' = network_era

\* In the auction and in the keeper's account.
AuctionAfter(tx) ==
  /\ keeper_funds' = keeper_funds + Amount(tx, "withdraw_for_delegation") - Amount(tx, "delegate")
  /\ delegated' \in [Validators -> Nat]
  /\ SumFunction(delegated') =
       SumFunction(delegated) + Amount(tx, "delegate") - Amount(tx, "undelegate")
  /\ unbonding' \in [Eras -> Nat]
  /\ SumFunction(unbonding') = SumFunction(unbonding) + Amount(tx, "undelegate")
  /\ \A e \in Eras : e <= network_era => unbonding'[e] = 0
  /\ \A x \in Nat : ReleasedBy(unbonding', x) = ReleasedBy(unbonding, x) +
       (IF x >= network_era + AUCTION_DELAY THEN Amount(tx, "undelegate") ELSE 0)
  /\ executed' \in [delegate : Nat, undelegate : Nat]
  /\ executed'.delegate = executed.delegate + Amount(tx, "delegate")
  /\ executed'.undelegate = executed.undelegate + Amount(tx, "undelegate")

LEMMA QueueCallDoes ==
  ASSUME IInv, NEW tx \in [call : Calls, entry : Entry],
         tx.call \in {"withdraw_for_delegation", "confirm_delegation", "confirm_undelegation"},
         ContractCall(tx)
  PROVE  ContractAfter(tx)
<1> DEFINE v == tx.entry.v
           a == tx.entry.amount
<1>1. v \in Validators /\ a \in Nat
  BY DEF Entry
<1>2. \/ tx.call = "withdraw_for_delegation" /\ WithdrawForDelegation(keeper, v, a)
      \/ tx.call = "confirm_delegation" /\ ConfirmDelegation(keeper, v, a)
      \/ tx.call = "confirm_undelegation" /\ ConfirmUndelegation(keeper, v, a)
  BY DEF ContractCall
<1>3. IInv'
  <2>1. \/ WithdrawForDelegation(keeper, v, a)
        \/ ConfirmDelegation(keeper, v, a)
        \/ ConfirmUndelegation(keeper, v, a)
    BY <1>2
  <2> HIDE DEF v, a
  <2> QED BY ONLY IInv, <1>1, <2>1, QueueStep
<1>4. UNCHANGED <<stakeVars, requestVars, adminVars>>
  BY <1>2 DEF WithdrawForDelegation, ConfirmDelegation, ConfirmUndelegation
<1>5. /\ Principal' = Principal /\ Requested' = Requested /\ total_staked' = total_staked
      /\ total_pending_withdrawal' = total_pending_withdrawal /\ network_era' = network_era
  <2>1. /\ user_stakes' = user_stakes /\ withdrawal_requests' = withdrawal_requests
        /\ total_staked' = total_staked
        /\ total_pending_withdrawal' = total_pending_withdrawal /\ network_era' = network_era
    BY <1>4 DEF stakeVars, requestVars, adminVars
  <2> QED BY <2>1 DEF Principal, Requested
<1>6. /\ IsPendingList(pending_delegations) /\ SumFunction(pending_delegations) \in Nat
      /\ IsPendingList(pending_undelegations) /\ SumFunction(pending_undelegations) \in Nat
      /\ purse \in Nat
  BY PendingFinite DEF IInv, TypeOK
<1>7. CASE tx.call = "withdraw_for_delegation"
  <2>1. /\ pending_delegations' = pending_delegations
        /\ pending_undelegations' = pending_undelegations /\ purse' = purse - a
    BY <1>2, <1>7 DEF WithdrawForDelegation, delegateVars
  <2>2. /\ Amount(tx, "withdraw_for_delegation") = a
        /\ Amount(tx, "confirm_delegation") = 0 /\ Amount(tx, "confirm_undelegation") = 0
    BY <1>7 DEF Amount
  <2> QED BY <1>3, <1>5, <1>6, <2>1, <2>2 DEF ContractAfter
<1>8. CASE tx.call = "confirm_delegation"
  <2>1. /\ pending_delegations' = ConfirmPending(pending_delegations, v, a)
        /\ v \in DOMAIN pending_delegations
        /\ pending_undelegations' = pending_undelegations /\ purse' = purse
    BY <1>2, <1>8 DEF ConfirmDelegation
  <2>2. /\ Amount(tx, "withdraw_for_delegation") = 0
        /\ Amount(tx, "confirm_delegation") = a /\ Amount(tx, "confirm_undelegation") = 0
    BY <1>8 DEF Amount
  <2> HIDE DEF a, v
  <2>3. /\ SumFunction(ConfirmPending(pending_delegations, v, a)) \in Nat
        /\ SumFunction(pending_delegations)
             <= SumFunction(ConfirmPending(pending_delegations, v, a)) + a
    BY <1>1, <1>6, <2>1, ConfirmPendingSum
  <2>4. SumFunction(pending_delegations') >= SumFunction(pending_delegations) - a
    BY <1>1, <1>6, <2>1, <2>3
  <2> QED BY <1>3, <1>5, <1>6, <2>1, <2>2, <2>4 DEF ContractAfter
<1>9. CASE tx.call = "confirm_undelegation"
  <2>1. /\ pending_undelegations' = ConfirmPending(pending_undelegations, v, a)
        /\ v \in DOMAIN pending_undelegations
        /\ pending_delegations' = pending_delegations /\ purse' = purse
    BY <1>2, <1>9 DEF ConfirmUndelegation
  <2>2. /\ Amount(tx, "withdraw_for_delegation") = 0
        /\ Amount(tx, "confirm_delegation") = 0 /\ Amount(tx, "confirm_undelegation") = a
    BY <1>9 DEF Amount
  <2> HIDE DEF a, v
  <2>3. /\ SumFunction(ConfirmPending(pending_undelegations, v, a)) \in Nat
        /\ SumFunction(pending_undelegations)
             <= SumFunction(ConfirmPending(pending_undelegations, v, a)) + a
    BY <1>1, <1>6, <2>1, ConfirmPendingSum
  <2>4. SumFunction(pending_undelegations') >= SumFunction(pending_undelegations) - a
    BY <1>1, <1>6, <2>1, <2>3
  <2> QED BY <1>3, <1>5, <1>6, <2>1, <2>2, <2>4 DEF ContractAfter
<1> QED BY <1>7, <1>8, <1>9

\* A harvest adds rewards and takes a fee off them.
LEMMA HarvestCallDoes ==
  ASSUME IInv, NEW tx \in [call : {"harvest_rewards"}, entry : [amount : Nat, era : Nat]],
         ContractCall(tx)
  PROVE  ContractAfter(tx)
<1> DEFINE a == tx.entry.amount
           expected == total_staked + total_pending_withdrawal
           rewards == a - expected
           fee == (rewards * PROTOCOL_FEE_BPS) \div BASIS_POINTS
<1>1. a \in Nat /\ tx.entry.era \in Nat /\ tx.call = "harvest_rewards"
  OBVIOUS
<1>2. HarvestRewards(keeper, a, tx.entry.era)
  BY <1>1 DEF ContractCall
<1>3. IInv'
  <2> DEFINE e == tx.entry.era
  <2>1. HarvestRewards(keeper, a, e) /\ a \in Nat /\ e \in Nat
    BY <1>1, <1>2
  <2> HIDE DEF a, e
  <2> QED BY ONLY IInv, <2>1, HarvestStep
<1>4. UNCHANGED <<user_stakes, requestVars, delegateVars, network_era, purse>>
  BY <1>2 DEF HarvestRewards
<1>5. /\ Principal' = Principal /\ Requested' = Requested
      /\ pending_delegations' = pending_delegations
      /\ pending_undelegations' = pending_undelegations /\ purse' = purse
      /\ total_pending_withdrawal' = total_pending_withdrawal /\ network_era' = network_era
  <2>1. user_stakes' = user_stakes /\ withdrawal_requests' = withdrawal_requests
    BY <1>4 DEF requestVars
  <2> QED BY <1>4, <2>1 DEF Principal, Requested, requestVars, delegateVars
<1>6. /\ SumFunction(pending_delegations) \in Nat /\ SumFunction(pending_undelegations) \in Nat
      /\ purse \in Nat /\ total_staked \in Nat /\ total_pending_withdrawal \in Nat
  BY PendingFinite DEF IInv, TypeOK
<1>7. total_staked' = total_staked \/ total_staked' + total_pending_withdrawal <= a
  <2>1. CASE a <= expected
    BY <1>2, <2>1 DEF HarvestRewards
  <2>2. CASE ~(a <= expected)
    <3>1. rewards \in Nat
      BY <1>1, <1>6, <2>2
    <3>2. total_staked' = total_staked + (rewards - fee)
      BY <1>2, <2>2 DEF HarvestRewards
    <3>3. fee \in 0..rewards
      <4> HIDE DEF rewards
      <4> QED BY <3>1, FeeAtMostReward
    <3>4. total_staked + rewards + total_pending_withdrawal = a
      <4> HIDE DEF a
      <4> QED BY <1>1, <1>6
    <3> HIDE DEF rewards, fee
    <3> QED BY <1>6, <3>1, <3>2, <3>3, <3>4
  <2> QED BY <2>1, <2>2
<1>8. /\ Amount(tx, "withdraw_for_delegation") = 0 /\ Amount(tx, "harvest_rewards") = a
      /\ Amount(tx, "confirm_delegation") = 0 /\ Amount(tx, "confirm_undelegation") = 0
  BY <1>1 DEF Amount
<1> QED BY <1>3, <1>5, <1>6, <1>7, <1>8 DEF ContractAfter

LEMMA ContractDoes ==
  ASSUME IInv, NEW tx \in Txs, ContractCall(tx) \/ Delegate(tx) \/ Undelegate(tx)
  PROVE  ContractAfter(tx)
<1>1. CASE /\ ContractCall(tx)
           /\ tx.call \in {"withdraw_for_delegation", "confirm_delegation", "confirm_undelegation"}
  <2>1. tx \in [call : Calls, entry : Entry]
    BY <1>1 DEF Txs
  <2> QED BY <1>1, <2>1, QueueCallDoes
<1>2. CASE ContractCall(tx) /\ tx.call = "harvest_rewards"
  <2>1. tx \in [call : {"harvest_rewards"}, entry : [amount : Nat, era : Nat]]
    BY <1>2 DEF Txs, Calls
  <2> QED BY <1>2, <2>1, HarvestCallDoes
<1> DEFINE Same == /\ stakeVars' = stakeVars /\ requestVars' = requestVars
                   /\ delegateVars' = delegateVars /\ network_era' = network_era
                   /\ purse' = purse
<1>3. ASSUME Same, IInv',
             tx.call \in {"deposit_from_undelegation", "delegate", "undelegate"}
      PROVE  ContractAfter(tx)
  <2>1. /\ Principal' = Principal /\ Requested' = Requested
        /\ pending_delegations' = pending_delegations
        /\ pending_undelegations' = pending_undelegations /\ purse' = purse
        /\ total_staked' = total_staked
        /\ total_pending_withdrawal' = total_pending_withdrawal /\ network_era' = network_era
    <3>1. user_stakes' = user_stakes /\ withdrawal_requests' = withdrawal_requests
      BY <1>3 DEF stakeVars, requestVars
    <3> QED BY <1>3, <3>1 DEF Principal, Requested, stakeVars, requestVars, delegateVars
  <2>2. /\ SumFunction(pending_delegations) \in Nat /\ SumFunction(pending_undelegations) \in Nat
        /\ purse \in Nat
    BY PendingFinite DEF IInv, TypeOK
  <2>3. /\ Amount(tx, "withdraw_for_delegation") = 0
        /\ Amount(tx, "confirm_delegation") = 0 /\ Amount(tx, "confirm_undelegation") = 0
    BY <1>3 DEF Amount
  <2> QED BY <1>3, <2>1, <2>2, <2>3 DEF ContractAfter
<1>4. CASE ContractCall(tx) /\ tx.call = "deposit_from_undelegation"
  <2>1. DepositFromUndelegation(keeper, 0)
    BY <1>4 DEF ContractCall
  <2>2. IInv'
    <3>1. 0 \in Nat
      OBVIOUS
    <3> QED BY ONLY IInv, <2>1, <3>1, DepositStep
  <2>3. Same
    <3>1. purse \in Nat
      BY DEF IInv, TypeOK
    <3> QED BY <2>1, <3>1 DEF DepositFromUndelegation, adminVars
  <2> QED BY <1>3, <1>4, <2>2, <2>3
<1>5. CASE Delegate(tx) \/ Undelegate(tx)
  <2>1. UNCHANGED vars
    BY <1>5 DEF Delegate, Undelegate, stakingVars
  <2>2. stakeVars' = stakeVars /\ requestVars' = requestVars /\ delegateVars' = delegateVars
        /\ tokenVars' = tokenVars /\ adminVars' = adminVars /\ purse' = purse
    BY <2>1 DEF vars
  <2>3. IInv'
    BY <2>1, StakingStep
  <2>4. Same
    BY <2>2 DEF adminVars
  <2>5. tx.call \in {"deposit_from_undelegation", "delegate", "undelegate"}
    BY <1>5 DEF Delegate, Undelegate
  <2> QED BY <1>3, <2>3, <2>4, <2>5
<1>6. ContractCall(tx) =>
        tx.call \in {"withdraw_for_delegation", "confirm_delegation", "confirm_undelegation",
                     "harvest_rewards", "deposit_from_undelegation"}
  BY DEF ContractCall
<1> QED BY <1>1, <1>2, <1>4, <1>5, <1>6

LEMMA AuctionDoes ==
  ASSUME WorkerTypes, NEW tx \in Txs, ContractCall(tx) \/ Delegate(tx) \/ Undelegate(tx)
  PROVE  AuctionAfter(tx)
<1> DEFINE a == tx.entry.amount
           v == tx.entry.v
           wd == "withdraw_for_delegation"
<1>1. /\ keeper_funds \in Int /\ delegated \in [Validators -> Nat] /\ unbonding \in [Eras -> Nat]
      /\ executed \in [delegate : Nat, undelegate : Nat] /\ network_era \in 1..MaxEra
      /\ \A e \in Eras : e <= network_era => unbonding[e] = 0
  BY DEF WorkerTypes
<1>2. /\ SumFunction(delegated) \in Nat /\ SumFunction(unbonding) \in Nat
      /\ \A x \in Nat : ReleasedBy(unbonding, x) \in Nat
  BY <1>1, Finite, SumLedger, Released
<1>3. a \in Nat
  BY DEF Txs, Entry
<1>4. /\ network_era \in Nat /\ network_era + AUCTION_DELAY \in Eras
      /\ AUCTION_DELAY \in Nat \ {0}
  BY <1>1, KeeperAssumption DEF Eras
<1>5. CASE ContractCall(tx)
  <2>1. UNCHANGED <<delegated, unbonding, executed>>
    BY <1>5 DEF ContractCall
  <2>2. Amount(tx, "delegate") = 0 /\ Amount(tx, "undelegate") = 0
    BY <1>5 DEF ContractCall, Amount
  <2>3. keeper_funds' = keeper_funds + Amount(tx, wd) /\ Amount(tx, wd) \in Nat
    BY <1>1, <1>3, <1>5 DEF ContractCall, Amount
  <2>4. \A x \in Nat : ReleasedBy(unbonding', x) = ReleasedBy(unbonding, x) +
          (IF x >= network_era + AUCTION_DELAY THEN 0 ELSE 0)
    BY <1>2, <2>1
  <2> QED BY <1>1, <1>2, <2>1, <2>2, <2>3, <2>4 DEF AuctionAfter
<1>6. CASE Delegate(tx)
  <2>1. tx.call = "delegate"
    BY <1>6 DEF Delegate
  <2>2. Amount(tx, "delegate") = a /\ Amount(tx, "undelegate") = 0 /\ Amount(tx, wd) = 0
    BY <2>1 DEF Amount
  <2>3. v \in Validators
    BY <2>1 DEF Txs, Entry
  <2>4. /\ delegated' = [delegated EXCEPT ![v] = @ + a]
        /\ keeper_funds' = keeper_funds - a
        /\ executed' = [executed EXCEPT !.delegate = @ + a]
        /\ unbonding' = unbonding
    BY <1>6 DEF Delegate
  <2> HIDE DEF a, v
  <2>5. /\ delegated' \in [Validators -> Nat] /\ delegated'[v] = delegated[v] + a
        /\ \A w \in Validators : w # v => delegated'[w] = delegated[w]
    BY <1>1, <1>3, <2>3, <2>4
  <2>6. SumFunction(delegated') = SumFunction(delegated) + a
    <3>1. a \in Int /\ IsFiniteSet(Validators)
      BY <1>3, Finite
    <3> QED BY ONLY <1>1, <2>3, <2>5, <3>1, SumCredit
  <2>7. /\ executed' \in [delegate : Nat, undelegate : Nat]
        /\ executed'.delegate = executed.delegate + a
        /\ executed'.undelegate = executed.undelegate /\ executed.undelegate \in Nat
    BY <1>1, <1>3, <2>4
  <2>8. \A x \in Nat : ReleasedBy(unbonding', x) = ReleasedBy(unbonding, x) +
          (IF x >= network_era + AUCTION_DELAY THEN 0 ELSE 0)
    BY <1>2, <2>4
  <2> QED BY <1>1, <1>2, <1>3, <2>2, <2>4, <2>5, <2>6, <2>7, <2>8 DEF AuctionAfter
<1>7. CASE Undelegate(tx)
  <2> DEFINE era == network_era + AUCTION_DELAY
             d == 0 - a
  <2>1. tx.call = "undelegate"
    BY <1>7 DEF Undelegate
  <2>2. Amount(tx, "delegate") = 0 /\ Amount(tx, "undelegate") = a /\ Amount(tx, wd) = 0
    BY <2>1 DEF Amount
  <2>3. v \in Validators
    BY <2>1 DEF Txs, Entry
  <2>4. /\ a <= delegated[v]
        /\ delegated' = [delegated EXCEPT ![v] = @ - a]
        /\ keeper_funds' = keeper_funds
        /\ executed' = [executed EXCEPT !.undelegate = @ + a]
        /\ unbonding' = [unbonding EXCEPT ![era] = @ + a]
    BY <1>7 DEF Undelegate
  <2> HIDE DEF a, v
  <2>5. /\ delegated' \in [Validators -> Nat] /\ delegated'[v] = delegated[v] + d
        /\ \A w \in Validators : w # v => delegated'[w] = delegated[w]
    BY <1>1, <1>3, <2>3, <2>4
  <2>6. SumFunction(delegated') = SumFunction(delegated) - a
    <3>1. d \in Int /\ IsFiniteSet(Validators)
      BY <1>3, Finite
    <3> HIDE DEF d
    <3>2. SumFunction(delegated') = SumFunction(delegated) + d
      BY ONLY <1>1, <2>3, <2>5, <3>1, SumCredit
    <3> QED BY <1>2, <1>3, <3>2 DEF d
  <2>7. /\ executed' \in [delegate : Nat, undelegate : Nat]
        /\ executed'.undelegate = executed.undelegate + a
        /\ executed'.delegate = executed.delegate /\ executed.delegate \in Nat
    BY <1>1, <1>3, <2>4
  <2>8. era \in Eras /\ era \in Nat /\ era > network_era
    BY <1>4
  <2> HIDE DEF era
  <2>9. ASSUME NEW x \in Nat
        PROVE  /\ unbonding' \in [Eras -> Nat] /\ SumFunction(unbonding') = SumFunction(unbonding) + a
               /\ ReleasedBy(unbonding', x) = ReleasedBy(unbonding, x) + (IF era <= x THEN a ELSE 0)
    <3>1. /\ unbonding \in [Eras -> Nat] /\ unbonding' \in [Eras -> Nat]
          /\ era \in Eras /\ a \in Int /\ x \in Nat
          /\ unbonding'[era] = unbonding[era] + a
          /\ \A k \in Eras : k # era => unbonding'[k] = unbonding[k]
      BY <1>1, <1>3, <2>4, <2>8
    <3> QED BY ONLY <3>1, ReleasedMore
  <2>10. \A e \in Eras : e <= network_era => unbonding'[e] = 0
    <3>1. \A e \in Eras : e \in Int
      BY KeeperAssumption DEF Eras
    <3> QED BY <1>1, <1>4, <2>4, <2>8, <3>1
  <2>11. /\ unbonding' \in [Eras -> Nat] /\ SumFunction(unbonding') = SumFunction(unbonding) + a
    <3>1. 0 \in Nat
      OBVIOUS
    <3> QED BY <2>9, <3>1
  <2>12. \A x \in Nat : ReleasedBy(unbonding', x) = ReleasedBy(unbonding, x) +
           (IF x >= network_era + AUCTION_DELAY THEN a ELSE 0)
    <3>1. \A x \in Nat : era <= x <=> x >= network_era + AUCTION_DELAY
      BY <1>4 DEF era
    <3> QED BY <2>9, <3>1
  <2>13. keeper_funds' = keeper_funds + 0 - 0
    BY <1>1, <2>4
  <2>14. /\ SumFunction(delegated') = SumFunction(delegated) + 0 - a
         /\ executed'.delegate = executed.delegate + 0
    BY <1>2, <1>3, <2>6, <2>7
  <2> QED BY ONLY <2>2, <2>5, <2>7, <2>10, <2>11, <2>12, <2>13, <2>14 DEF AuctionAfter
<1> QED BY <1>5, <1>6, <1>7

-----------------------------------------------------------------------------
(***************************************************************************)
(* What keeps the invariant, whichever step does it.                       *)
(***************************************************************************)
\* The invariant of the next state, in the next state's variables.
LEMMA NextParts ==
  /\ Honest' <=>
       /\ Principal' + Requested' - SumFunction(pending_delegations')
            + (InJobs(jobs', "confirm_delegation") + InLate(late', "confirm_delegation"))
            <= executed'.delegate
       /\ Requested' - SumFunction(pending_undelegations')
            + (InJobs(jobs', "confirm_undelegation") + InLate(late', "confirm_undelegation"))
            <= executed'.undelegate
  /\ Backed' <=>
       \A recs \in {records', file'}, x \in Nat : x >= network_era' =>
         CompleteBy(recs, x)
             + (IF x >= network_era' + UNBONDING_PERIOD THEN ToRecord(jobs') ELSE 0)
           <= keeper_funds' - (InJobs(jobs', "delegate") + InLate(late', "delegate"))
                + ReleasedBy(unbonding', x)
  /\ Earned' <=>
       /\ total_staked' + total_pending_withdrawal' <= purse' + Wealth'
       /\ \A j \in Jobs : Amount(jobs'[j].tx, "harvest_rewards") <= Wealth'
       /\ \A i \in 1..Len(late') : Amount(late'[i], "harvest_rewards") <= Wealth'
  /\ Wealth' = keeper_funds' + SumFunction(delegated') + SumFunction(unbonding')
<1>1. Honest' <=>
       /\ Principal' + Requested' - SumFunction(pending_delegations')
            + (InJobs(jobs', "confirm_delegation") + InLate(late', "confirm_delegation"))
            <= executed'.delegate
       /\ Requested' - SumFunction(pending_undelegations')
            + (InJobs(jobs', "confirm_undelegation") + InLate(late', "confirm_undelegation"))
            <= executed'.undelegate
  BY DEF Honest, Outstanding
<1>2. Backed' <=>
       \A recs \in {records', file'}, x \in Nat : x >= network_era' =>
         CompleteBy(recs, x)
             + (IF x >= network_era' + UNBONDING_PERIOD THEN ToRecord(jobs') ELSE 0)
           <= keeper_funds' - (InJobs(jobs', "delegate") + InLate(late', "delegate"))
                + ReleasedBy(unbonding', x)
  BY DEF Backed, Outstanding
<1>3. Earned' <=>
       /\ total_staked' + total_pending_withdrawal' <= purse' + Wealth'
       /\ \A j \in Jobs : Amount(jobs'[j].tx, "harvest_rewards") <= Wealth'
       /\ \A i \in 1..Len(late') : Amount(late'[i], "harvest_rewards") <= Wealth'
  BY DEF Earned
<1>4. Wealth' = keeper_funds' + SumFunction(delegated') + SumFunction(unbonding')
  BY DEF Wealth
<1> QED BY <1>1, <1>2, <1>3, <1>4

\* A transaction is executed, and what waits for the next is of its amount.
LEMMA Executed ==
  ASSUME WorkerInv, NEW tx \in Txs, ContractCall(tx) \/ Delegate(tx) \/ Undelegate(tx),
         Amount(tx, "harvest_rewards") <= Wealth,
         records' = records, file' = file, jobs' \in [Jobs -> Job], late' \in Seq(Txs),
         InJobs(jobs', "confirm_delegation") + InLate(late', "confirm_delegation")
           <= Outstanding("confirm_delegation") - Amount(tx, "confirm_delegation")
                + Amount(tx, "delegate"),
         InJobs(jobs', "confirm_undelegation") + InLate(late', "confirm_undelegation")
           <= Outstanding("confirm_undelegation") - Amount(tx, "confirm_undelegation")
                + Amount(tx, "undelegate"),
         InJobs(jobs', "delegate") + InLate(late', "delegate")
           <= Outstanding("delegate") - Amount(tx, "delegate")
                + Amount(tx, "withdraw_for_delegation"),
         ToRecord(jobs') <= ToRecord(jobs) + Amount(tx, "undelegate"),
         \A j \in Jobs : Amount(jobs'[j].tx, "harvest_rewards") <= Wealth,
         \A i \in 1..Len(late') : Amount(late'[i], "harvest_rewards") <= Wealth
  PROVE  WorkerInv'
<1> DEFINE wd == Amount(tx, "withdraw_for_delegation")
           de == Amount(tx, "delegate")
           un == Amount(tx, "undelegate")
           cd == Amount(tx, "confirm_delegation")
           cu == Amount(tx, "confirm_undelegation")
           hr == Amount(tx, "harvest_rewards")
           ocd == InJobs(jobs', "confirm_delegation") + InLate(late', "confirm_delegation")
           ocu == InJobs(jobs', "confirm_undelegation") + InLate(late', "confirm_undelegation")
           ode == InJobs(jobs', "delegate") + InLate(late', "delegate")
           tr == ToRecord(jobs')
<1>1. IInv /\ WorkerTypes /\ Honest /\ Backed /\ Earned
  BY DEF WorkerInv
<1>2. wd \in Nat /\ de \in Nat /\ un \in Nat /\ cd \in Nat /\ cu \in Nat /\ hr \in Nat
  BY AmountNat
<1>3. ContractAfter(tx)
  BY <1>1, ContractDoes
<1>4. AuctionAfter(tx)
  BY <1>1, AuctionDoes
<1>5. /\ Principal \in Nat /\ Requested \in Nat
      /\ SumFunction(pending_delegations) \in Nat /\ SumFunction(pending_undelegations) \in Nat
      /\ executed.delegate \in Nat /\ executed.undelegate \in Nat
      /\ SumFunction(delegated) \in Nat /\ SumFunction(unbonding) \in Nat
      /\ keeper_funds \in Int /\ Wealth \in Int /\ purse \in Nat
      /\ total_staked \in Nat /\ total_pending_withdrawal \in Nat
      /\ network_era \in Nat /\ ToRecord(jobs) \in Nat
      /\ Outstanding("confirm_delegation") \in Nat /\ Outstanding("delegate") \in Nat
      /\ Outstanding("confirm_undelegation") \in Nat
  BY <1>1, Numbers
<1>6. /\ SumFunction(pending_delegations') \in Nat /\ SumFunction(pending_undelegations') \in Nat
      /\ total_staked' \in Nat
  BY <1>3, PendingFinite DEF ContractAfter, IInv, TypeOK
<1>7. ocd \in Nat /\ ocu \in Nat /\ ode \in Nat /\ tr \in Nat
  <2>1. ASSUME NEW js \in [Jobs -> Job], NEW txs \in Seq(Txs), NEW call, call # "none"
        PROVE  InJobs(js, call) + InLate(txs, call) \in Nat /\ ToRecord(js) \in Nat
    <3>1. InLate(txs, call) \in Nat
      BY <2>1, LateNat
    <3>2. InJobs(js, call) \in Nat
      BY <2>1, InJobsNat
    <3>3. ToRecord(js) \in Nat
      BY InJobsNat
    <3> QED BY <3>1, <3>2, <3>3
  <2> QED BY <2>1
<1>8. WorkerTypes'
  <2>1. /\ keeper_funds' \in Int /\ delegated' \in [Validators -> Nat]
        /\ unbonding' \in [Eras -> Nat] /\ network_era' = network_era
        /\ \A e \in Eras : e <= network_era => unbonding'[e] = 0
        /\ executed' \in [delegate : Nat, undelegate : Nat]
    <3>1. keeper_funds' = keeper_funds + wd - de
      BY <1>4 DEF AuctionAfter
    <3>2. keeper_funds' \in Int
      <4> HIDE DEF wd, de
      <4> QED BY ONLY <1>2, <1>5, <3>1
    <3> QED BY <1>3, <1>4, <3>2 DEF ContractAfter, AuctionAfter
  <2>2. records' \in Seq(Record) /\ file' \in Seq(Record) /\ network_era \in 1..MaxEra
    BY <1>1 DEF WorkerTypes
  <2> QED BY <2>1, <2>2 DEF WorkerTypes
<1>9. Wealth' = Wealth + wd
  <2>1. /\ keeper_funds' = keeper_funds + wd - de
        /\ SumFunction(delegated') = SumFunction(delegated) + de - un
        /\ SumFunction(unbonding') = SumFunction(unbonding) + un
    BY <1>4 DEF AuctionAfter
  <2>2. Wealth' = keeper_funds' + SumFunction(delegated') + SumFunction(unbonding')
    BY NextParts
  <2>3. Wealth = keeper_funds + SumFunction(delegated) + SumFunction(unbonding)
    BY DEF Wealth
  <2> HIDE DEF wd, de, un
  <2> QED BY ONLY <1>2, <1>5, <2>1, <2>2, <2>3
<1>10. Honest'
  <2>1. /\ Principal + Requested - SumFunction(pending_delegations)
             + Outstanding("confirm_delegation") <= executed.delegate
        /\ Requested - SumFunction(pending_undelegations)
             + Outstanding("confirm_undelegation") <= executed.undelegate
    BY <1>1 DEF Honest
  <2>2. /\ Principal' = Principal /\ Requested' = Requested
        /\ SumFunction(pending_delegations') >= SumFunction(pending_delegations) - cd
        /\ SumFunction(pending_undelegations') >= SumFunction(pending_undelegations) - cu
        /\ executed'.delegate = executed.delegate + de
        /\ executed'.undelegate = executed.undelegate + un
    BY <1>3, <1>4 DEF ContractAfter, AuctionAfter
  <2>3. /\ ocd <= Outstanding("confirm_delegation") - cd + de
        /\ ocu <= Outstanding("confirm_undelegation") - cu + un
    OBVIOUS
  <2> HIDE DEF cd, cu, de, un, ocd, ocu
  <2>4. /\ Principal' + Requested' - SumFunction(pending_delegations') + ocd <= executed'.delegate
        /\ Requested' - SumFunction(pending_undelegations') + ocu <= executed'.undelegate
    BY ONLY <1>2, <1>5, <1>6, <1>7, <2>1, <2>2, <2>3
  <2> QED BY <2>4, NextParts DEF ocd, ocu
<1>11. Backed'
  <2> DEFINE By(era, t) == IF era THEN t ELSE 0
  <2>1. /\ network_era' = network_era
        /\ keeper_funds' = keeper_funds + wd - de
        /\ ode <= Outstanding("delegate") - de + wd
        /\ tr <= ToRecord(jobs) + un
    BY <1>3, <1>4 DEF ContractAfter, AuctionAfter
  <2>2. ASSUME NEW recs \in {records', file'}, NEW x \in Nat, x >= network_era
        PROVE  CompleteBy(recs, x) + (IF x >= network_era + UNBONDING_PERIOD THEN tr ELSE 0)
                 <= keeper_funds' - ode + ReleasedBy(unbonding', x)
    <3>1. CompleteBy(recs, x)
            + (IF x >= network_era + UNBONDING_PERIOD THEN ToRecord(jobs) ELSE 0)
            <= keeper_funds - Outstanding("delegate") + ReleasedBy(unbonding, x)
      BY <1>1, <2>2 DEF Backed
    <3>2. CompleteBy(recs, x) \in Nat
      BY <1>1, RecordSums DEF WorkerTypes
    <3>3. /\ ReleasedBy(unbonding, x) \in Nat
          /\ ReleasedBy(unbonding', x) = ReleasedBy(unbonding, x) +
               (IF x >= network_era + AUCTION_DELAY THEN un ELSE 0)
      BY <1>1, <1>4, Released DEF AuctionAfter, WorkerTypes
    <3>4. x >= network_era + UNBONDING_PERIOD => x >= network_era + AUCTION_DELAY
      BY <1>5, KeeperAssumption
    <3> HIDE DEF wd, de, un, ode, tr
    <3>5. CASE x >= network_era + UNBONDING_PERIOD
      BY ONLY <1>2, <1>5, <1>7, <2>1, <3>1, <3>2, <3>3, <3>4, <3>5
    <3>6. CASE ~(x >= network_era + UNBONDING_PERIOD)
      BY ONLY <1>2, <1>5, <1>7, <2>1, <3>1, <3>2, <3>3, <3>6
    <3> QED BY <3>5, <3>6
  <2> QED BY <2>1, <2>2, NextParts
<1>12. Earned'
  <2>1. total_staked + total_pending_withdrawal <= purse + Wealth /\ hr <= Wealth
    BY <1>1 DEF Earned
  <2>2. /\ purse' = purse - wd /\ total_pending_withdrawal' = total_pending_withdrawal
        /\ \/ total_staked' = total_staked
           \/ total_staked' + total_pending_withdrawal <= hr
    BY <1>3 DEF ContractAfter
  <2>3. total_staked' + total_pending_withdrawal' <= purse' + Wealth'
    <3> HIDE DEF wd, hr
    <3>1. purse' + Wealth' = purse + Wealth /\ purse' \in Int /\ Wealth' \in Int
      BY ONLY <1>2, <1>5, <1>9, <2>2
    <3>2. CASE total_staked' = total_staked
      BY ONLY <2>1, <2>2, <3>1, <3>2
    <3>3. CASE total_staked' + total_pending_withdrawal <= hr
      <4> DEFINE owed == total_staked' + total_pending_withdrawal'
      <4>1. owed \in Nat
        <5>1. total_pending_withdrawal' \in Nat
          BY <1>5, <2>2
        <5>2. total_staked' \in Nat
          BY <1>6
        <5>3. \A a, b \in Nat : a + b \in Nat
          OBVIOUS
        <5> QED BY ONLY <5>1, <5>2, <5>3, Zenon
      <4>2. owed <= hr
        <5>1. total_pending_withdrawal' = total_pending_withdrawal
          BY <2>2
        <5> QED BY ONLY <3>3, <5>1, Zenon
      <4>3. hr \in Nat /\ hr <= Wealth /\ Wealth \in Int /\ purse \in Nat
        BY <1>2, <1>5, <2>1
      <4> HIDE DEF owed
      <4>4. owed <= purse + Wealth
        BY ONLY <4>1, <4>2, <4>3
      <4> QED BY <3>1, <4>4 DEF owed
    <3> QED BY <2>2, <3>2, <3>3
  <2>4. Wealth <= Wealth'
    <3> HIDE DEF wd
    <3> QED BY ONLY <1>2, <1>5, <1>9
  <2>5. ASSUME NEW q \in Txs \cup {NoTx}, Amount(q, "harvest_rewards") <= Wealth
        PROVE  Amount(q, "harvest_rewards") <= Wealth'
    <3>1. Wealth' \in Int
      <4> HIDE DEF wd
      <4> QED BY ONLY <1>2, <1>5, <1>9
    <3>2. Amount(q, "harvest_rewards") \in Nat
      BY AmountNat
    <3> QED BY <1>5, <2>4, <2>5, <3>1, <3>2
  <2>6. \A j \in Jobs : jobs'[j].tx \in Txs \cup {NoTx}
    BY JobParts
  <2>7. \A i \in 1..Len(late') : late'[i] \in Txs
    OBVIOUS
  <2> QED BY <2>3, <2>5, <2>6, <2>7, NextParts
<1> QED BY <1>3, <1>8, <1>10, <1>11, <1>12 DEF WorkerInv, ContractAfter

\* A handler goes on, or the process starts again, and nothing else happens.
LEMMA Handled ==
  ASSUME WorkerInv, UNCHANGED <<stakingVars, auctionVars>>,
         jobs' \in [Jobs -> Job], late' \in Seq(Txs),
         records' \in Seq(Record), file' \in Seq(Record),
         \A call \in Later :
           InJobs(jobs', call) + InLate(late', call) <= Outstanding(call),
         \A recs \in {records', file'}, x \in Nat : \E old \in {records, file} :
           CompleteBy(recs, x)
               + (IF x >= network_era + UNBONDING_PERIOD THEN ToRecord(jobs') ELSE 0)
             <= CompleteBy(old, x)
                  + (IF x >= network_era + UNBONDING_PERIOD THEN ToRecord(jobs) ELSE 0),
         \A j \in Jobs : Amount(jobs'[j].tx, "harvest_rewards") <= Wealth,
         \A i \in 1..Len(late') : Amount(late'[i], "harvest_rewards") <= Wealth
  PROVE  WorkerInv'
<1> DEFINE ocd == InJobs(jobs', "confirm_delegation") + InLate(late', "confirm_delegation")
           ocu == InJobs(jobs', "confirm_undelegation") + InLate(late', "confirm_undelegation")
           ode == InJobs(jobs', "delegate") + InLate(late', "delegate")
           tr == ToRecord(jobs')
<1>1. IInv /\ WorkerTypes /\ Honest /\ Backed /\ Earned
  BY DEF WorkerInv
<1>2. /\ Principal \in Nat /\ Requested \in Nat
      /\ SumFunction(pending_delegations) \in Nat /\ SumFunction(pending_undelegations) \in Nat
      /\ executed.delegate \in Nat /\ executed.undelegate \in Nat
      /\ keeper_funds \in Int /\ Wealth \in Int
      /\ network_era \in Nat /\ ToRecord(jobs) \in Nat
      /\ Outstanding("confirm_delegation") \in Nat /\ Outstanding("delegate") \in Nat
      /\ Outstanding("confirm_undelegation") \in Nat
  BY <1>1, Numbers
<1>3. UNCHANGED vars /\ keeper_funds' = keeper_funds /\ delegated' = delegated
      /\ unbonding' = unbonding /\ executed' = executed
  BY DEF stakingVars, auctionVars
<1>4. IInv'
  BY <1>1, <1>3, StakingStep
<1>5. /\ Principal' = Principal /\ Requested' = Requested
      /\ pending_delegations' = pending_delegations
      /\ pending_undelegations' = pending_undelegations /\ purse' = purse
      /\ total_staked' = total_staked
      /\ total_pending_withdrawal' = total_pending_withdrawal /\ network_era' = network_era
  <2>1. /\ stakeVars' = stakeVars /\ requestVars' = requestVars
        /\ delegateVars' = delegateVars /\ adminVars' = adminVars /\ purse' = purse
    BY <1>3 DEF vars
  <2>2. user_stakes' = user_stakes /\ withdrawal_requests' = withdrawal_requests
    BY <2>1 DEF stakeVars, requestVars
  <2> QED BY <2>1, <2>2
        DEF Principal, Requested, stakeVars, requestVars, delegateVars, adminVars
<1>6. Wealth' = Wealth
  BY <1>3 DEF Wealth
<1>7. ocd \in Nat /\ ocu \in Nat /\ ode \in Nat /\ tr \in Nat
  <2>1. ASSUME NEW js \in [Jobs -> Job], NEW txs \in Seq(Txs), NEW call, call # "none"
        PROVE  InJobs(js, call) + InLate(txs, call) \in Nat /\ ToRecord(js) \in Nat
    <3>1. InLate(txs, call) \in Nat
      BY <2>1, LateNat
    <3>2. InJobs(js, call) \in Nat
      BY <2>1, InJobsNat
    <3>3. ToRecord(js) \in Nat
      BY InJobsNat
    <3> QED BY <3>1, <3>2, <3>3
  <2> QED BY <2>1
<1>8. /\ ocd <= Outstanding("confirm_delegation")
      /\ ocu <= Outstanding("confirm_undelegation")
      /\ ode <= Outstanding("delegate")
  BY DEF Later
<1>9. WorkerTypes'
  BY <1>1, <1>3, <1>5 DEF WorkerTypes
<1>10. Honest'
  <2>1. /\ Principal + Requested - SumFunction(pending_delegations)
             + Outstanding("confirm_delegation") <= executed.delegate
        /\ Requested - SumFunction(pending_undelegations)
             + Outstanding("confirm_undelegation") <= executed.undelegate
    BY <1>1 DEF Honest
  <2> HIDE DEF ocd, ocu
  <2>2. /\ Principal + Requested - SumFunction(pending_delegations) + ocd <= executed.delegate
        /\ Requested - SumFunction(pending_undelegations) + ocu <= executed.undelegate
    BY ONLY <1>2, <1>7, <1>8, <2>1
  <2> QED BY <1>3, <1>5, <2>2, NextParts DEF ocd, ocu
<1>11. Backed'
  <2>1. ASSUME NEW recs \in {records', file'}, NEW x \in Nat, x >= network_era
        PROVE  CompleteBy(recs, x) + (IF x >= network_era + UNBONDING_PERIOD THEN tr ELSE 0)
                 <= keeper_funds - ode + ReleasedBy(unbonding, x)
    <3> DEFINE due(t) == IF x >= network_era + UNBONDING_PERIOD THEN t ELSE 0
               now == CompleteBy(recs, x) + due(tr)
    <3>1. PICK old \in {records, file} : now <= CompleteBy(old, x) + due(ToRecord(jobs))
      OBVIOUS
    <3> DEFINE before == CompleteBy(old, x) + due(ToRecord(jobs))
    <3>2. before <= keeper_funds - Outstanding("delegate") + ReleasedBy(unbonding, x)
      BY <1>1, <2>1 DEF Backed
    <3>3. now \in Nat /\ before \in Nat
      <4>1. CompleteBy(recs, x) \in Nat /\ CompleteBy(old, x) \in Nat
        BY <1>1, RecordSums DEF WorkerTypes
      <4> HIDE DEF tr
      <4>2. due(tr) \in Nat /\ due(ToRecord(jobs)) \in Nat
        BY <1>2, <1>7
      <4> HIDE DEF due
      <4> QED BY ONLY <4>1, <4>2
    <3>4. ReleasedBy(unbonding, x) \in Nat
      BY <1>1, Released DEF WorkerTypes
    <3>5. now <= before
      BY <3>1
    <3> HIDE DEF now, before, ode
    <3>6. now <= keeper_funds - ode + ReleasedBy(unbonding, x)
      BY ONLY <1>2, <1>7, <1>8, <3>2, <3>3, <3>4, <3>5
    <3> QED BY <3>6 DEF now
  <2> QED BY <1>3, <1>5, <2>1, NextParts
<1>12. Earned'
  BY <1>1, <1>5, <1>6, NextParts DEF Earned
<1> QED BY <1>4, <1>9, <1>10, <1>11, <1>12 DEF WorkerInv

-----------------------------------------------------------------------------
(***************************************************************************)
(* The steps of a handler.                                                 *)
(***************************************************************************)
\* A handler turns to another entry, whatever it did with the last.
LEMMA HandlerMoves ==
  ASSUME WorkerInv, NEW j \in Jobs, NEW new, Starting(new, Wealth),
         jobs' = [jobs EXCEPT ![j] = new]
  PROVE  /\ jobs' \in [Jobs -> Job] /\ late \in Seq(Txs)
         /\ \A call \in Later :
              /\ InJobs(jobs, call) \in Nat /\ Waited(jobs[j], call) \in Nat
              /\ InLate(late, call) \in Nat
              /\ InJobs(jobs', call) = InJobs(jobs, call) - Waited(jobs[j], call)
         /\ ToRecord(jobs) \in Nat /\ ToRecord(jobs') \in Nat
         /\ Amount(jobs[j].tx, "confirm_undelegation") \in Nat
         /\ ToRecord(jobs') = ToRecord(jobs) - Amount(jobs[j].tx, "confirm_undelegation")
         /\ \A k \in Jobs : Amount(jobs'[k].tx, "harvest_rewards") <= Wealth
         /\ \A i \in 1..Len(late) : Amount(late[i], "harvest_rewards") <= Wealth
<1>1. /\ jobs \in [Jobs -> Job] /\ late \in Seq(Txs) /\ new \in Job
      /\ jobs' \in [Jobs -> Job] /\ jobs'[j] = new
      /\ \A k \in Jobs : k # j => jobs'[k] = jobs[k]
  BY DEF WorkerInv, WorkerTypes, Starting
<1>2. ASSUME NEW call \in Later
      PROVE  /\ InJobs(jobs, call) \in Nat /\ Waited(jobs[j], call) \in Nat
             /\ InLate(late, call) \in Nat
             /\ InJobs(jobs', call) = InJobs(jobs, call) - Waited(jobs[j], call)
  <2>1. call # "none" /\ Waited(new, call) = 0
    BY DEF Later, Starting
  <2>2. InLate(late, call) \in Nat
    BY <1>1, <2>1, LateNat
  <2>3. /\ InJobs(jobs, call) \in Nat /\ Waited(jobs[j], call) \in Nat
        /\ InJobs(jobs', call) = InJobs(jobs, call) - Waited(jobs[j], call) + Waited(jobs'[j], call)
    BY ONLY <1>1, <2>1, JobChange
  <2> QED BY <1>1, <2>1, <2>2, <2>3
<1>3. /\ ToRecord(jobs) \in Nat /\ ToRecord(jobs') \in Nat
      /\ Amount(jobs[j].tx, "confirm_undelegation") \in Nat
      /\ ToRecord(jobs') = ToRecord(jobs) - Amount(jobs[j].tx, "confirm_undelegation")
  <2>1. Amount(new.tx, "confirm_undelegation") = 0
    BY DEF Later, Starting
  <2>2. ToRecord(jobs') \in Nat
    BY <1>1, InJobsNat
  <2>3. /\ ToRecord(jobs) \in Nat /\ Amount(jobs[j].tx, "confirm_undelegation") \in Nat
        /\ ToRecord(jobs') = ToRecord(jobs) - Amount(jobs[j].tx, "confirm_undelegation")
                               + Amount(jobs'[j].tx, "confirm_undelegation")
    BY ONLY <1>1, ToRecordChange
  <2> QED BY <1>1, <2>1, <2>2, <2>3
<1>4. \A k \in Jobs : Amount(jobs'[k].tx, "harvest_rewards") <= Wealth
  <2>1. Amount(new.tx, "harvest_rewards") <= Wealth
    BY DEF Starting
  <2>2. \A k \in Jobs : jobs'[k] = IF k = j THEN new ELSE jobs[k]
    BY <1>1
  <2> QED BY <2>1, <2>2 DEF WorkerInv, Earned
<1> QED BY <1>1, <1>2, <1>3, <1>4 DEF WorkerInv, Earned

\* A timer fires, or a handler is through with a phase.
LEMMA BeginPhaseStep ==
  ASSUME WorkerInv, NEW j \in Jobs, jobs[j].tx = NoTx,
         NEW phases \in Seq(Phases), phases # <<>>, BeginPhase(j, phases)
  PROVE  WorkerInv'
<1>1. PICK entries \in Entries(Head(phases)) \cup EntriesOfFailure(Head(phases)) :
        jobs' = [jobs EXCEPT ![j] = Working(phases, entries)]
  BY DEF BeginPhase
<1>2. UNCHANGED <<stakingVars, auctionVars, trackerVars, late>>
  BY DEF BeginPhase
<1>3. Wealth \in Nat /\ SumFunction(delegated) <= Wealth
  BY WealthNat
<1>4. Starting(Working(phases, entries), Wealth)
  <2>1. Head(phases) \in Phases
    OBVIOUS
  <2>2. IsList(Head(phases), entries, Wealth)
    BY <1>3, <2>1, PhaseLists DEF WorkerInv
  <2> QED BY <1>3, <2>2, WorkingStarts
<1> DEFINE new == Working(phases, entries)
<1>5. jobs' = [jobs EXCEPT ![j] = new] /\ Starting(new, Wealth)
  BY <1>1, <1>4
<1> HIDE DEF new
<1>6. /\ jobs' \in [Jobs -> Job] /\ late \in Seq(Txs)
      /\ \A call \in Later :
           /\ InJobs(jobs, call) \in Nat /\ Waited(jobs[j], call) \in Nat
           /\ InLate(late, call) \in Nat
           /\ InJobs(jobs', call) = InJobs(jobs, call) - Waited(jobs[j], call)
      /\ ToRecord(jobs) \in Nat
      /\ ToRecord(jobs') = ToRecord(jobs) - Amount(jobs[j].tx, "confirm_undelegation")
      /\ \A k \in Jobs : Amount(jobs'[k].tx, "harvest_rewards") <= Wealth
      /\ \A i \in 1..Len(late) : Amount(late[i], "harvest_rewards") <= Wealth
  BY <1>5, HandlerMoves
<1>7. late' = late /\ records' = records /\ file' = file
      /\ records \in Seq(Record) /\ file \in Seq(Record)
  BY <1>2 DEF trackerVars, WorkerInv, WorkerTypes
<1>8. \A call \in Later : InJobs(jobs', call) + InLate(late', call) <= Outstanding(call)
  BY <1>6, <1>7 DEF Outstanding
<1>9. ToRecord(jobs') = ToRecord(jobs)
  BY <1>6 DEF Amount, NoTx
<1>10. ASSUME NEW recs \in {records', file'}, NEW x \in Nat
       PROVE  \E old \in {records, file} :
                CompleteBy(recs, x)
                    + (IF x >= network_era + UNBONDING_PERIOD THEN ToRecord(jobs') ELSE 0)
                  <= CompleteBy(old, x)
                       + (IF x >= network_era + UNBONDING_PERIOD THEN ToRecord(jobs) ELSE 0)
  <2>1. recs \in {records, file} /\ recs \in Seq(Record)
    BY <1>7
  <2>2. CompleteBy(recs, x) \in Nat
    BY <2>1, RecordSums
  <2> QED BY <1>6, <1>9, <2>1, <2>2
<1>11. UNCHANGED <<stakingVars, auctionVars>>
  BY <1>2
<1> QED BY <1>6, <1>7, <1>8, <1>10, <1>11, Handled

LEMMA CleanedSum ==
  ASSUME NEW j, NEW recs \in Seq(Record), NEW x \in Nat
  PROVE  /\ Cleaned(j, recs) \in Seq(Record)
         /\ CompleteBy(Cleaned(j, recs), x) \in Nat /\ CompleteBy(recs, x) \in Nat
         /\ CompleteBy(Cleaned(j, recs), x) <= CompleteBy(recs, x)
<1>1. CompleteBy(recs, x) \in Nat
  BY RecordSums
<1>2. Cleaned(j, recs) = recs \/ Cleaned(j, recs) = CleanupOldRecords(recs)
  BY DEF Cleaned
<1>3. /\ CleanupOldRecords(recs) \in Seq(Record)
      /\ CompleteBy(CleanupOldRecords(recs), x) <= CompleteBy(recs, x)
  BY RecordsCleaned
<1>4. Cleaned(j, recs) \in Seq(Record)
  BY <1>2, <1>3
<1>5. CompleteBy(Cleaned(j, recs), x) \in Nat
  BY <1>4, RecordSums
<1>6. CompleteBy(Cleaned(j, recs), x) <= CompleteBy(recs, x)
  <2>1. CASE Cleaned(j, recs) = recs
    BY <1>1, <2>1
  <2>2. CASE Cleaned(j, recs) = CleanupOldRecords(recs)
    BY <1>3, <2>2
  <2> QED BY <1>2, <2>1, <2>2
<1> QED BY <1>1, <1>4, <1>5, <1>6

\* The tracker is told: what the handler has confirmed is in the records.
LEMMA FinishEntryStep ==
  ASSUME WorkerInv, NEW j \in Jobs, FinishEntry(j)
  PROVE  WorkerInv'
<1> DEFINE tx == jobs[j].tx
           v == tx.entry.v
           a == tx.entry.amount
           r == NewRecord(v, a, network_era)
           told == IF tx.call = "confirm_undelegation" THEN Append(records, r)
                   ELSE MarkAsDeposited(records, v, a)
           new == NextEntry(jobs[j])
           cu == Amount(tx, "confirm_undelegation")
           complete == network_era + UNBONDING_PERIOD
<1>1. /\ jobs[j] \in Job /\ jobs[j].executed /\ records \in Seq(Record) /\ file \in Seq(Record)
      /\ network_era \in Nat /\ UNBONDING_PERIOD \in Nat
  BY KeeperAssumption DEF FinishEntry, WorkerInv, WorkerTypes
<1>2. tx \in Txs /\ tx.call \in Recorded
  BY <1>1, JobParts
<1>3. v \in Validators /\ a \in Nat /\ tx # NoTx
  <2>1. tx \in [call : Calls, entry : Entry]
    BY <1>2 DEF Txs, Recorded
  <2> QED BY <2>1 DEF Entry, NoTx, Calls
<1>4. /\ records' = Cleaned(j, told) /\ file' \in {file, records'}
      /\ jobs' = [jobs EXCEPT ![j] = new]
      /\ UNCHANGED <<stakingVars, auctionVars, late>>
  BY DEF FinishEntry, SaveRecords
<1>5. Starting(new, Wealth)
  <2>1. Wealth \in Nat
    BY WealthNat
  <2> QED BY <1>1, <1>3, <2>1, NextStarts
<1>6. r \in Record /\ r.completeEra = complete /\ r.amount = a
  BY <1>1, <1>3 DEF NewRecord, Record
<1> HIDE DEF new, r
<1>7. /\ jobs' \in [Jobs -> Job] /\ late \in Seq(Txs)
      /\ \A call \in Later :
           /\ InJobs(jobs, call) \in Nat /\ Waited(jobs[j], call) \in Nat
           /\ InLate(late, call) \in Nat
           /\ InJobs(jobs', call) = InJobs(jobs, call) - Waited(jobs[j], call)
      /\ ToRecord(jobs) \in Nat /\ ToRecord(jobs') \in Nat
      /\ cu \in Nat /\ ToRecord(jobs') = ToRecord(jobs) - cu
      /\ \A k \in Jobs : Amount(jobs'[k].tx, "harvest_rewards") <= Wealth
      /\ \A i \in 1..Len(late) : Amount(late[i], "harvest_rewards") <= Wealth
  BY <1>4, <1>5, HandlerMoves
<1>8. ASSUME NEW x \in Nat
      PROVE  /\ told \in Seq(Record) /\ CompleteBy(told, x) \in Nat
             /\ CompleteBy(records, x) \in Nat
             /\ CompleteBy(told, x) = CompleteBy(records, x) + (IF complete <= x THEN cu ELSE 0)
  <2>1. CompleteBy(records, x) \in Nat
    BY <1>1, RecordSums
  <2>2. CASE tx.call = "confirm_undelegation"
    <3>1. told = Append(records, r) /\ cu = a
      BY <2>2 DEF Amount
    <3> HIDE DEF told
    <3>2. /\ told \in Seq(Record)
          /\ CompleteBy(told, x) = CompleteBy(records, x) + (IF r.completeEra <= x THEN r.amount ELSE 0)
      BY <1>1, <1>6, <3>1, RecordAppended
    <3>3. CompleteBy(told, x) \in Nat
      BY <3>2, RecordSums
    <3> QED BY <1>6, <2>1, <3>1, <3>2, <3>3
  <2>3. CASE tx.call # "confirm_undelegation"
    <3>1. told = MarkAsDeposited(records, v, a) /\ cu = 0
      BY <2>3 DEF Amount
    <3> HIDE DEF told, v, a, cu
    <3>2. told \in Seq(Record) /\ CompleteBy(told, x) = CompleteBy(records, x)
      BY <1>1, <3>1, RecordMarked
    <3> QED BY <2>1, <3>1, <3>2
  <2> QED BY <2>2, <2>3
<1> HIDE DEF told
<1>9. records' \in Seq(Record) /\ file' \in Seq(Record)
  <2>1. 0 \in Nat
    OBVIOUS
  <2>2. told \in Seq(Record)
    BY <1>8, <2>1
  <2>3. Cleaned(j, told) \in Seq(Record)
    BY <2>1, <2>2, CleanedSum
  <2> QED BY <1>1, <1>4, <2>3
<1>10. \A call \in Later : InJobs(jobs', call) + InLate(late', call) <= Outstanding(call)
  <2>1. late' = late
    BY <1>4
  <2> QED BY <1>7, <2>1 DEF Outstanding
<1>11. ASSUME NEW recs \in {records', file'}, NEW x \in Nat
       PROVE  \E old \in {records, file} :
                CompleteBy(recs, x)
                    + (IF x >= network_era + UNBONDING_PERIOD THEN ToRecord(jobs') ELSE 0)
                  <= CompleteBy(old, x)
                       + (IF x >= network_era + UNBONDING_PERIOD THEN ToRecord(jobs) ELSE 0)
  <2> HIDE DEF cu
  <2>1. CASE recs = file
    <3>1. CompleteBy(file, x) \in Nat
      BY <1>1, RecordSums
    <3> QED BY <1>7, <2>1, <3>1
  <2>2. CASE recs = records'
    <3>1. /\ CompleteBy(told, x) \in Nat /\ CompleteBy(records, x) \in Nat
          /\ CompleteBy(told, x) =
               CompleteBy(records, x) + (IF x >= network_era + UNBONDING_PERIOD THEN cu ELSE 0)
      BY <1>1, <1>8
    <3>2. CompleteBy(recs, x) \in Nat /\ CompleteBy(recs, x) <= CompleteBy(told, x)
      BY <1>4, <1>8, <2>2, CleanedSum
    <3>3. CompleteBy(recs, x)
              + (IF x >= network_era + UNBONDING_PERIOD THEN ToRecord(jobs') ELSE 0)
            <= CompleteBy(records, x)
                 + (IF x >= network_era + UNBONDING_PERIOD THEN ToRecord(jobs) ELSE 0)
      <4>1. CASE x >= network_era + UNBONDING_PERIOD
        BY ONLY <1>7, <3>1, <3>2, <4>1
      <4>2. CASE ~(x >= network_era + UNBONDING_PERIOD)
        BY ONLY <1>7, <3>1, <3>2, <4>2
      <4> QED BY <4>1, <4>2
    <3> QED BY <3>3
  <2> QED BY <1>4, <2>1, <2>2
<1>12. late' = late /\ UNCHANGED <<stakingVars, auctionVars>>
  BY <1>4
<1> QED BY <1>7, <1>9, <1>10, <1>11, <1>12, Handled

\* Nobody waits for the transaction any more; it may still be executed.
LEMMA LeftBehind ==
  ASSUME NEW job \in Job, NEW txs \in Seq(Txs), NEW txs2 \in {txs, txs \o Unexecuted(job)}
  PROVE  /\ txs2 \in Seq(Txs)
         /\ \A call : call # "none" =>
              /\ InLate(txs, call) \in Nat /\ InLate(txs2, call) \in Nat
              /\ Waited(job, call) \in Nat
              /\ InLate(txs2, call) <= InLate(txs, call) + Waited(job, call)
         /\ \A i \in 1..Len(txs2) :
              txs2[i] = job.tx \/ \E k \in 1..Len(txs) : txs2[i] = txs[k]
<1>1. \A call : call # "none" => Waited(job, call) \in Nat /\ InLate(txs, call) \in Nat
  BY WaitedNat, LateNat
<1>2. CASE txs2 = txs \/ ~IsWaiting(job)
  <2>1. txs2 = txs
    BY <1>2 DEF Unexecuted
  <2> QED BY <1>1, <2>1
<1>3. CASE txs2 = txs \o <<job.tx>> /\ IsWaiting(job)
  <2> DEFINE tx == job.tx
             one == <<tx>>
  <2>1. tx \in Txs
    BY <1>3, JobParts DEF IsWaiting
  <2>2. one \in Seq(Txs) /\ txs2 = txs \o one
    BY <1>3, <2>1
  <2>3. ASSUME NEW call, call # "none"
        PROVE  InLate(one, call) = Waited(job, call)
    <3>1. InLate(one, call) = Amount(tx, call)
      BY <2>1, <2>3, LateOne
    <3> QED BY <1>3, <3>1 DEF Waited
  <2>4. \A i \in 1..Len(txs2) : txs2[i] = tx \/ \E k \in 1..Len(txs) : txs2[i] = txs[k]
    <3>1. Len(txs2) = Len(txs) + 1 /\ Len(txs) \in Nat
      BY <2>2
    <3>2. \A i \in 1..Len(txs) : txs2[i] = txs[i]
      BY <2>2
    <3>3. txs2[Len(txs) + 1] = tx
      BY <2>2
    <3> QED BY <3>1, <3>2, <3>3
  <2> HIDE DEF one
  <2>5. ASSUME NEW call, call # "none"
        PROVE  InLate(txs2, call) = InLate(txs, call) + InLate(one, call)
    BY <2>2, <2>5, LateJoined
  <2>6. txs2 \in Seq(Txs)
    BY <2>2
  <2> QED BY <1>1, <2>3, <2>4, <2>5, <2>6
<1> QED BY <1>2, <1>3 DEF Unexecuted

\* The handler gives an entry up, having seen an error or waited too long.
LEMMA GiveUpStep ==
  ASSUME WorkerInv, NEW j \in Jobs, GiveUp(j)
  PROVE  WorkerInv'
<1> DEFINE new == NextEntry(jobs[j])
           cu == Amount(jobs[j].tx, "confirm_undelegation")
<1>1. /\ jobs[j] \in Job /\ jobs[j].tx # NoTx /\ late \in Seq(Txs)
      /\ records \in Seq(Record) /\ file \in Seq(Record)
  BY DEF GiveUp, WorkerInv, WorkerTypes
<1>2. /\ records' = Cleaned(j, records) /\ file' \in {file, records'}
      /\ jobs' = [jobs EXCEPT ![j] = new]
      /\ late' \in {late, late \o Unexecuted(jobs[j])}
      /\ UNCHANGED <<stakingVars, auctionVars>>
  BY DEF GiveUp
<1>3. Starting(new, Wealth)
  <2>1. Wealth \in Nat
    BY WealthNat
  <2> QED BY <1>1, <2>1, NextStarts
<1> HIDE DEF new
<1>4. /\ jobs' \in [Jobs -> Job]
      /\ \A call \in Later :
           /\ InJobs(jobs, call) \in Nat /\ Waited(jobs[j], call) \in Nat
           /\ InLate(late, call) \in Nat
           /\ InJobs(jobs', call) = InJobs(jobs, call) - Waited(jobs[j], call)
      /\ ToRecord(jobs) \in Nat /\ ToRecord(jobs') \in Nat
      /\ cu \in Nat /\ ToRecord(jobs') = ToRecord(jobs) - cu
      /\ \A k \in Jobs : Amount(jobs'[k].tx, "harvest_rewards") <= Wealth
      /\ \A i \in 1..Len(late) : Amount(late[i], "harvest_rewards") <= Wealth
  BY <1>2, <1>3, HandlerMoves
<1>5. /\ late' \in Seq(Txs)
      /\ \A call : call # "none" => /\ InLate(late', call) \in Nat
              /\ InLate(late', call) <= InLate(late, call) + Waited(jobs[j], call)
      /\ \A i \in 1..Len(late') :
           late'[i] = jobs[j].tx \/ \E k \in 1..Len(late) : late'[i] = late[k]
  BY <1>1, <1>2, LeftBehind
<1>6. \A i \in 1..Len(late') : Amount(late'[i], "harvest_rewards") <= Wealth
  <2>1. Amount(jobs[j].tx, "harvest_rewards") <= Wealth
    BY DEF WorkerInv, Earned
  <2> QED BY <1>4, <1>5, <2>1
<1>7. ASSUME NEW call \in Later
      PROVE  InJobs(jobs', call) + InLate(late', call) <= Outstanding(call)
  <2>1. call # "none"
    BY DEF Later
  <2>2. /\ InLate(late', call) \in Nat
        /\ InLate(late', call) <= InLate(late, call) + Waited(jobs[j], call)
    BY <1>5, <2>1
  <2>3. /\ InJobs(jobs, call) \in Nat /\ Waited(jobs[j], call) \in Nat
        /\ InLate(late, call) \in Nat
        /\ InJobs(jobs', call) = InJobs(jobs, call) - Waited(jobs[j], call)
    BY <1>4
  <2>4. InJobs(jobs', call) + InLate(late', call) <= InJobs(jobs, call) + InLate(late, call)
    BY ONLY <2>2, <2>3
  <2> QED BY <2>4 DEF Outstanding
<1>8. records' \in Seq(Record) /\ file' \in Seq(Record)
  <2>1. 0 \in Nat
    OBVIOUS
  <2>2. Cleaned(j, records) \in Seq(Record)
    BY <1>1, <2>1, CleanedSum
  <2> QED BY <1>1, <1>2, <2>2
<1>9. ASSUME NEW recs \in {records', file'}, NEW x \in Nat
      PROVE  \E old \in {records, file} :
               CompleteBy(recs, x)
                   + (IF x >= network_era + UNBONDING_PERIOD THEN ToRecord(jobs') ELSE 0)
                 <= CompleteBy(old, x)
                      + (IF x >= network_era + UNBONDING_PERIOD THEN ToRecord(jobs) ELSE 0)
  <2> HIDE DEF cu
  <2>1. PICK old \in {records, file} :
          /\ CompleteBy(recs, x) \in Nat /\ CompleteBy(old, x) \in Nat
          /\ CompleteBy(recs, x) <= CompleteBy(old, x)
    <3>1. CASE recs = file
      <4>1. CompleteBy(file, x) \in Nat
        BY <1>1, RecordSums
      <4> QED BY <3>1, <4>1
    <3>2. CASE recs = records'
      <4>1. /\ CompleteBy(recs, x) \in Nat /\ CompleteBy(records, x) \in Nat
            /\ CompleteBy(recs, x) <= CompleteBy(records, x)
        BY <1>1, <1>2, <3>2, CleanedSum
      <4> QED BY <4>1
    <3> QED BY <1>2, <3>1, <3>2
  <2>2. CASE x >= network_era + UNBONDING_PERIOD
    BY <1>4, <2>1, <2>2
  <2>3. CASE ~(x >= network_era + UNBONDING_PERIOD)
    BY <1>4, <2>1, <2>3
  <2> QED BY <2>2, <2>3
<1>10. UNCHANGED <<stakingVars, auctionVars>>
  BY <1>2
<1>11. \A call \in Later : InJobs(jobs', call) + InLate(late', call) <= Outstanding(call)
  BY <1>7
<1> QED BY <1>4, <1>5, <1>6, <1>8, <1>9, <1>10, <1>11, Handled

\* A transaction reverts: the entry is given up, and nothing was left behind.
LEMMA RevertStep ==
  ASSUME WorkerInv, NEW j \in Jobs, IsWaiting(jobs[j]), NEW new, new = NextEntry(jobs[j]),
         jobs' = [jobs EXCEPT ![j] = new],
         UNCHANGED <<stakingVars, auctionVars>>, UNCHANGED <<trackerVars, late>>
  PROVE  WorkerInv'
<1> DEFINE cu == Amount(jobs[j].tx, "confirm_undelegation")
<1>1. /\ jobs[j] \in Job /\ jobs[j].tx # NoTx
      /\ records \in Seq(Record) /\ file \in Seq(Record)
  BY DEF WorkerInv, WorkerTypes, IsWaiting
<1>2. records' = records /\ file' = file /\ late' = late
  BY DEF trackerVars
<1>3. Starting(new, Wealth)
  <2>1. Wealth \in Nat
    BY WealthNat
  <2> QED BY <1>1, <2>1, NextStarts
<1>4. /\ jobs' \in [Jobs -> Job] /\ late \in Seq(Txs)
      /\ \A call \in Later :
           /\ InJobs(jobs, call) \in Nat /\ Waited(jobs[j], call) \in Nat
           /\ InLate(late, call) \in Nat
           /\ InJobs(jobs', call) = InJobs(jobs, call) - Waited(jobs[j], call)
      /\ ToRecord(jobs) \in Nat /\ ToRecord(jobs') \in Nat
      /\ cu \in Nat /\ ToRecord(jobs') = ToRecord(jobs) - cu
      /\ \A k \in Jobs : Amount(jobs'[k].tx, "harvest_rewards") <= Wealth
      /\ \A i \in 1..Len(late) : Amount(late[i], "harvest_rewards") <= Wealth
  BY <1>3, HandlerMoves
<1>5. \A call \in Later : InJobs(jobs', call) + InLate(late', call) <= Outstanding(call)
  <2>1. late' = late
    BY <1>2
  <2> QED BY ONLY <1>4, <2>1 DEF Outstanding
<1>6. ASSUME NEW recs \in {records', file'}, NEW x \in Nat
      PROVE  \E old \in {records, file} :
               CompleteBy(recs, x)
                   + (IF x >= network_era + UNBONDING_PERIOD THEN ToRecord(jobs') ELSE 0)
                 <= CompleteBy(old, x)
                      + (IF x >= network_era + UNBONDING_PERIOD THEN ToRecord(jobs) ELSE 0)
  <2> HIDE DEF cu
  <2>1. recs \in {records, file} /\ CompleteBy(recs, x) \in Nat
    BY <1>1, <1>2, RecordSums
  <2>2. CASE x >= network_era + UNBONDING_PERIOD
    BY <1>4, <2>1, <2>2
  <2>3. CASE ~(x >= network_era + UNBONDING_PERIOD)
    BY <1>4, <2>1, <2>3
  <2> QED BY <2>2, <2>3
<1> QED BY <1>1, <1>2, <1>4, <1>5, <1>6, Handled

\* A transaction is executed while its handler waits.
LEMMA SuccessStep ==
  ASSUME WorkerInv, NEW j \in Jobs, IsWaiting(jobs[j]), NEW new,
         Follows(jobs[j].tx, new, Wealth), jobs' = [jobs EXCEPT ![j] = new],
         ContractCall(jobs[j].tx) \/ Delegate(jobs[j].tx) \/ Undelegate(jobs[j].tx),
         UNCHANGED <<trackerVars, late>>
  PROVE  WorkerInv'
<1> DEFINE tx == jobs[j].tx
           Of(call) == Amount(tx, call)
<1>1. /\ jobs \in [Jobs -> Job] /\ jobs[j] \in Job /\ late \in Seq(Txs) /\ new \in Job
      /\ jobs' \in [Jobs -> Job] /\ jobs'[j] = new
      /\ \A k \in Jobs : k # j => jobs'[k] = jobs[k]
  BY DEF WorkerInv, WorkerTypes, Follows
<1>2. tx \in Txs
  BY <1>1, JobParts DEF IsWaiting
<1>3. records' = records /\ file' = file /\ late' = late
  BY DEF trackerVars
<1>4. ASSUME NEW call \in Later
      PROVE  /\ InJobs(jobs, call) \in Nat /\ InLate(late, call) \in Nat
             /\ Of(call) \in Nat /\ Waited(new, call) \in Nat
             /\ InJobs(jobs', call) = InJobs(jobs, call) - Of(call) + Waited(new, call)
  <2>1. call # "none"
    BY DEF Later
  <2>2. Waited(jobs[j], call) = Of(call)
    BY DEF Waited
  <2>3. /\ InJobs(jobs, call) \in Nat /\ Waited(jobs[j], call) \in Nat
        /\ Waited(jobs'[j], call) \in Nat
        /\ InJobs(jobs', call) = InJobs(jobs, call) - Waited(jobs[j], call) + Waited(jobs'[j], call)
    BY ONLY <1>1, <2>1, JobChange
  <2>4. InLate(late, call) \in Nat
    BY <1>1, <2>1, LateNat
  <2> QED BY <1>1, <2>2, <2>3, <2>4
<1>5. /\ Of("withdraw_for_delegation") \in Nat /\ Of("delegate") \in Nat
      /\ Of("undelegate") \in Nat
  BY <1>2, AmountNat
<1>6. /\ Waited(new, "confirm_delegation") <= Of("delegate")
      /\ Waited(new, "confirm_undelegation") <= Of("undelegate")
      /\ Waited(new, "delegate") <= Of("withdraw_for_delegation")
      /\ Amount(new.tx, "confirm_undelegation") <= Of("confirm_undelegation") + Of("undelegate")
      /\ Amount(new.tx, "harvest_rewards") <= Wealth
  BY DEF Follows
<1>7. ASSUME NEW call \in Later, NEW before \in Nat, Waited(new, call) <= before
      PROVE  InJobs(jobs', call) + InLate(late', call) <= Outstanding(call) - Of(call) + before
  <2> HIDE DEF Of
  <2>1. InJobs(jobs', call) + InLate(late, call)
          <= (InJobs(jobs, call) + InLate(late, call)) - Of(call) + before
    BY ONLY <1>4, <1>7
  <2> QED BY <1>3, <2>1 DEF Outstanding
<1>8. /\ InJobs(jobs', "confirm_delegation") + InLate(late', "confirm_delegation")
           <= Outstanding("confirm_delegation") - Of("confirm_delegation") + Of("delegate")
      /\ InJobs(jobs', "confirm_undelegation") + InLate(late', "confirm_undelegation")
           <= Outstanding("confirm_undelegation") - Of("confirm_undelegation") + Of("undelegate")
      /\ InJobs(jobs', "delegate") + InLate(late', "delegate")
           <= Outstanding("delegate") - Of("delegate") + Of("withdraw_for_delegation")
  <2>1. "confirm_delegation" \in Later /\ "confirm_undelegation" \in Later /\ "delegate" \in Later
    BY DEF Later
  <2> HIDE DEF Of
  <2> QED BY <1>5, <1>6, <1>7, <2>1
<1>9. ToRecord(jobs') <= ToRecord(jobs) + Of("undelegate")
  <2>1. /\ ToRecord(jobs) \in Nat /\ Amount(jobs[j].tx, "confirm_undelegation") \in Nat
        /\ Amount(jobs'[j].tx, "confirm_undelegation") \in Nat
        /\ ToRecord(jobs') = ToRecord(jobs) - Amount(jobs[j].tx, "confirm_undelegation")
                               + Amount(jobs'[j].tx, "confirm_undelegation")
    BY ONLY <1>1, ToRecordChange
  <2> QED BY <1>1, <1>5, <1>6, <2>1
<1>10. /\ \A k \in Jobs : Amount(jobs'[k].tx, "harvest_rewards") <= Wealth
       /\ \A i \in 1..Len(late') : Amount(late'[i], "harvest_rewards") <= Wealth
  <2>1. ASSUME NEW k \in Jobs PROVE Amount(jobs'[k].tx, "harvest_rewards") <= Wealth
    <3>1. CASE k = j
      BY <1>1, <1>6, <3>1
    <3>2. CASE k # j
      BY <1>1, <3>2 DEF WorkerInv, Earned
    <3> QED BY <3>1, <3>2
  <2> QED BY <1>3, <2>1 DEF WorkerInv, Earned
<1>11. Amount(tx, "harvest_rewards") <= Wealth
  BY DEF WorkerInv, Earned
<1>12. ContractCall(tx) \/ Delegate(tx) \/ Undelegate(tx)
  OBVIOUS
<1>13. late' \in Seq(Txs)
  BY <1>1, <1>3
<1> QED BY <1>1, <1>2, <1>3, <1>8, <1>9, <1>10, <1>11, <1>12, <1>13, Executed

LEMMA ExecuteStep ==
  ASSUME WorkerInv, NEW j \in Jobs, Execute(j)
  PROVE  WorkerInv'
<1> DEFINE job == jobs[j]
<1>1. IsWaiting(job) /\ UNCHANGED <<trackerVars, late>> /\ job \in Job /\ Wealth \in Nat
  BY WealthNat DEF Execute, WorkerInv, WorkerTypes
<1>2. CASE /\ ContractCall(job.tx) \/ Delegate(job.tx) \/ Undelegate(job.tx)
           /\ jobs' = [jobs EXCEPT ![j] = After(job, TRUE)]
  <2> DEFINE new == After(job, TRUE)
  <2>1. Follows(job.tx, new, Wealth)
    BY <1>1, AfterSuccess, Zenon
  <2>2. jobs' = [jobs EXCEPT ![j] = new]
    BY <1>2, Zenon
  <2>3. ContractCall(job.tx) \/ Delegate(job.tx) \/ Undelegate(job.tx)
    BY <1>2, Zenon
  <2> HIDE DEF new
  <2> QED BY <1>1, <2>1, <2>2, <2>3, SuccessStep
<1>3. CASE /\ jobs' = [jobs EXCEPT ![j] = After(job, FALSE)]
           /\ UNCHANGED <<stakingVars, auctionVars>>
  <2> DEFINE new == After(job, FALSE)
  <2>1. new = NextEntry(job)
    BY Zenon DEF After
  <2>2. jobs' = [jobs EXCEPT ![j] = new] /\ UNCHANGED <<stakingVars, auctionVars>>
    BY <1>3, Zenon
  <2> HIDE DEF new
  <2> QED BY <1>1, <2>1, <2>2, RevertStep
<1> QED BY <1>2, <1>3, Zenon DEF Execute

\* A transaction left behind is executed after all, or it never is.
LEMMA ExecuteLateStep ==
  ASSUME WorkerInv, NEW i \in DOMAIN late, ExecuteLate(i)
  PROVE  WorkerInv'
<1> DEFINE tx == late[i]
           Of(call) == Amount(tx, call)
<1>1. /\ jobs \in [Jobs -> Job] /\ late \in Seq(Txs) /\ i \in 1..Len(late) /\ tx \in Txs
      /\ records \in Seq(Record) /\ file \in Seq(Record)
  BY DEF WorkerInv, WorkerTypes
<1>2. /\ records' = records /\ file' = file /\ jobs' = jobs /\ late' = RemoveAt(late, i)
  BY DEF ExecuteLate, trackerVars
<1>3. ASSUME NEW call, call # "none"
      PROVE  /\ late' \in Seq(Txs)
             /\ \A k \in 1..Len(late') : \E m \in 1..Len(late) : late'[k] = late[m]
             /\ InLate(late, call) = InLate(late', call) + Of(call)
  <2>1. late \in Seq(Txs) /\ i \in 1..Len(late)
    BY <1>1
  <2> DEFINE rest == RemoveAt(late, i)
  <2>2. /\ rest \in Seq(Txs)
        /\ \A k \in 1..Len(rest) : \E m \in 1..Len(late) : rest[k] = late[m]
        /\ InLate(late, call) = InLate(rest, call) + Of(call)
    BY ONLY <1>3, <2>1, LateRemoved
  <2> HIDE DEF rest, Of
  <2>3. late' = rest
    BY <1>2 DEF rest
  <2> QED BY ONLY <2>2, <2>3
<1>4. ASSUME NEW call, call # "none"
      PROVE  /\ InJobs(jobs, call) \in Nat /\ InLate(late, call) \in Nat
             /\ InLate(late', call) \in Nat /\ Of(call) \in Nat
             /\ Outstanding(call) \in Nat
             /\ InJobs(jobs', call) + InLate(late', call) = Outstanding(call) - Of(call)
  <2>1. late' \in Seq(Txs) /\ InLate(late, call) = InLate(late', call) + Of(call)
    BY <1>3, <1>4
  <2>2. InJobs(jobs, call) \in Nat /\ InLate(late, call) \in Nat
    BY <1>1, <1>4, InJobsNat, LateNat
  <2>3. InLate(late', call) \in Nat
    BY <1>4, <2>1, LateNat
  <2>4. Of(call) \in Nat
    BY <1>1, <1>4, AmountNat
  <2>5. Outstanding(call) = InJobs(jobs, call) + InLate(late, call)
    BY DEF Outstanding
  <2>6. InJobs(jobs', call) = InJobs(jobs, call)
    BY <1>2
  <2> HIDE DEF Of
  <2> QED BY ONLY <2>1, <2>2, <2>3, <2>4, <2>5, <2>6
<1>5. late' \in Seq(Txs) /\ \A k \in 1..Len(late') : \E m \in 1..Len(late) : late'[k] = late[m]
  <2> DEFINE call == "delegate"
  <2>1. call # "none"
    OBVIOUS
  <2> HIDE DEF call
  <2>2. /\ late' \in Seq(Txs)
        /\ \A k \in 1..Len(late') : \E m \in 1..Len(late) : late'[k] = late[m]
        /\ InLate(late, call) = InLate(late', call) + Of(call)
    BY <1>3, <2>1, Zenon
  <2> QED BY ONLY <2>2
<1>6. /\ \A k \in Jobs : Amount(jobs'[k].tx, "harvest_rewards") <= Wealth
      /\ \A k \in 1..Len(late') : Amount(late'[k], "harvest_rewards") <= Wealth
      /\ Amount(tx, "harvest_rewards") <= Wealth
  BY <1>1, <1>2, <1>5 DEF WorkerInv, Earned
<1>7. ToRecord(jobs') = ToRecord(jobs) /\ ToRecord(jobs) \in Nat
  BY <1>1, <1>2, InJobsNat
<1>8. CASE ContractCall(tx) \/ Delegate(tx) \/ Undelegate(tx)
  <2>1. /\ Of("withdraw_for_delegation") \in Nat /\ Of("delegate") \in Nat
        /\ Of("undelegate") \in Nat
    BY <1>1, AmountNat
  <2>2. ASSUME NEW call, call # "none", NEW more \in Nat
        PROVE  InJobs(jobs', call) + InLate(late', call) <= Outstanding(call) - Of(call) + more
    <3> HIDE DEF Of
    <3>1. /\ Outstanding(call) \in Nat /\ Of(call) \in Nat
          /\ InJobs(jobs', call) + InLate(late', call) = Outstanding(call) - Of(call)
      BY <1>4, <2>2
    <3> QED BY <3>1, <2>2
  <2>3. /\ InJobs(jobs', "confirm_delegation") + InLate(late', "confirm_delegation")
             <= Outstanding("confirm_delegation") - Of("confirm_delegation") + Of("delegate")
        /\ InJobs(jobs', "confirm_undelegation") + InLate(late', "confirm_undelegation")
             <= Outstanding("confirm_undelegation") - Of("confirm_undelegation") + Of("undelegate")
        /\ InJobs(jobs', "delegate") + InLate(late', "delegate")
             <= Outstanding("delegate") - Of("delegate") + Of("withdraw_for_delegation")
    <3> HIDE DEF Of
    <3> QED BY <2>1, <2>2
  <2>4. ToRecord(jobs') <= ToRecord(jobs) + Of("undelegate")
    BY <1>7, <2>1
  <2>5. jobs' \in [Jobs -> Job]
    BY <1>1, <1>2
  <2> QED BY <1>1, <1>2, <1>5, <1>6, <1>8, <2>3, <2>4, <2>5, Executed
<1>9. CASE UNCHANGED <<stakingVars, auctionVars>>
  <2>1. ASSUME NEW call \in Later
        PROVE  InJobs(jobs', call) + InLate(late', call) <= Outstanding(call)
    <3>1. call # "none"
      BY DEF Later
    <3> HIDE DEF Of
    <3>2. /\ Outstanding(call) \in Nat /\ Of(call) \in Nat
          /\ InJobs(jobs', call) + InLate(late', call) = Outstanding(call) - Of(call)
      BY <1>4, <3>1
    <3> QED BY <3>2
  <2>2. ASSUME NEW recs \in {records', file'}, NEW x \in Nat
        PROVE  \E old \in {records, file} :
                 CompleteBy(recs, x)
                     + (IF x >= network_era + UNBONDING_PERIOD THEN ToRecord(jobs') ELSE 0)
                   <= CompleteBy(old, x)
                        + (IF x >= network_era + UNBONDING_PERIOD THEN ToRecord(jobs) ELSE 0)
    <3>1. recs \in {records, file} /\ CompleteBy(recs, x) \in Nat
      BY <1>1, <1>2, RecordSums
    <3> QED BY <1>7, <3>1
  <2>3. jobs' \in [Jobs -> Job] /\ records' \in Seq(Record) /\ file' \in Seq(Record)
    BY <1>1, <1>2
  <2> QED BY <1>5, <1>6, <1>9, <2>1, <2>2, <2>3, Handled
<1> QED BY <1>8, <1>9 DEF ExecuteLate

\* What a crash leaves behind is no more than what was waited for.
LEMMA SentSum ==
  ASSUME NEW js \in [Jobs -> Job], NEW sent \in SUBSET {j \in Jobs : IsWaiting(js[j])},
         NEW q, q = [i \in DOMAIN SetToSeq(sent) |-> js[SetToSeq(sent)[i]].tx]
  PROVE  /\ q \in Seq(Txs)
         /\ \A i \in 1..Len(q) : \E j \in Jobs : q[i] = js[j].tx
         /\ \A call : call # "none" => InLate(q, call) <= InJobs(js, call)
<1> DEFINE order == SetToSeq(sent)
           m == Cardinality(sent)
<1>1. IsFiniteSet(sent) /\ m \in Nat
  <2>1. sent \subseteq Jobs
    OBVIOUS
  <2> QED BY <2>1, Finite, FS_Subset, FS_CardinalityType
<1>2. order \in [1..m -> sent] /\ \A a, b \in 1..m : order[a] = order[b] => a = b
  <2>1. \E g \in [1..m -> sent] : IsInjective(g)
    <3>1. ExistsBijection(1..m, sent)
      BY <1>1, FS_CardinalityType
    <3> QED BY <3>1 DEF ExistsBijection, Bijection, Injection
  <2>2. order = CHOOSE g \in [1..m -> sent] : IsInjective(g)
    BY DEF SetToSeq
  <2> HIDE DEF order, m
  <2>3. order \in [1..m -> sent] /\ IsInjective(order)
    BY <2>1, <2>2, Zenon
  <2> QED BY <2>3 DEF IsInjective
<1>3. q = [i \in 1..m |-> js[order[i]].tx]
  <2>1. q = [i \in DOMAIN order |-> js[order[i]].tx]
    OBVIOUS
  <2> HIDE DEF order, m
  <2> QED BY <1>2, <2>1
<1> HIDE DEF order, m
<1>4. \A i \in 1..m : order[i] \in Jobs /\ IsWaiting(js[order[i]]) /\ js[order[i]] \in Job
  BY <1>2
<1>5. \A i \in 1..m : js[order[i]].tx \in Txs
  <2>1. \A j \in Jobs : js[j] \in Job
    OBVIOUS
  <2>2. \A job \in Job : IsWaiting(job) => job.tx \in Txs
    BY JobParts DEF IsWaiting
  <2> QED BY <1>4, <2>2
<1>6. q \in Seq(Txs) /\ Len(q) = m
  <2>1. q \in [1..m -> Txs]
    BY <1>3, <1>5
  <2>2. \A s \in [1..m -> Txs] : s \in Seq(Txs) /\ Len(s) = m
    BY <1>1
  <2> QED BY <2>1, <2>2
<1>7. ASSUME NEW call, call # "none"
      PROVE  InLate(q, call) <= InJobs(js, call)
  <2> DEFINE h == [i \in 1..m |-> Amount(q[i], call)]
             f == [j \in Jobs |-> Waited(js[j], call)]
             S == 1..m
  <2>1. InLate(q, call) = SumFunctionOnSet(h, S) /\ InJobs(js, call) = SumFunctionOnSet(f, Jobs)
    BY <1>6 DEF InLate, InJobs
  <2>2. \A j \in Jobs : f[j] \in Nat
    BY <1>7, WaitedNat
  <2>3. \A i \in S : h[i] = f[order[i]]
    BY <1>3, <1>4 DEF Waited
  <2>4. IsFiniteSet(S) /\ IsFiniteSet(Jobs)
    BY <1>1, Finite
  <2>5. order \in [S -> Jobs] /\ \A a, b \in S : order[a] = order[b] => a = b
    BY <1>2
  <2> HIDE DEF h, f, S
  <2>6. \A i \in S : h[i] \in Nat /\ h[i] <= f[order[i]]
    BY <2>2, <2>3, <2>5
  <2>7. SumFunctionOnSet(h, S) <= SumFunctionOnSet(f, Jobs)
    BY ONLY <2>2, <2>4, <2>5, <2>6, KeptSum
  <2> QED BY <2>1, <2>7
<1>8. \A i \in 1..Len(q) : \E j \in Jobs : q[i] = js[j].tx
  BY <1>3, <1>4, <1>6
<1> QED BY <1>6, <1>7, <1>8

\* The process starts again, with what it saved or with nothing.
LEMMA RestartStep ==
  ASSUME WorkerInv, Restart
  PROVE  WorkerInv'
<1>1. PICK sent \in SUBSET {j \in Jobs : IsWaiting(jobs[j])} :
        late' = late \o [i \in DOMAIN SetToSeq(sent) |-> jobs[SetToSeq(sent)[i]].tx]
  BY DEF Restart
<1> DEFINE q == [i \in DOMAIN SetToSeq(sent) |-> jobs[SetToSeq(sent)[i]].tx]
<1>2. /\ jobs' = [j \in Jobs |-> Idle] /\ late' = late \o q
      /\ records' = file' /\ file' \in {file, <<>>}
      /\ UNCHANGED <<stakingVars, auctionVars>>
  BY <1>1 DEF Restart
<1>3. /\ jobs \in [Jobs -> Job] /\ late \in Seq(Txs) /\ file \in Seq(Record)
  BY DEF WorkerInv, WorkerTypes
<1>4. /\ q \in Seq(Txs)
      /\ \A i \in 1..Len(q) : \E j \in Jobs : q[i] = jobs[j].tx
      /\ \A call : call # "none" => InLate(q, call) <= InJobs(jobs, call)
  BY <1>3, SentSum
<1> HIDE DEF q
<1>5. /\ jobs' \in [Jobs -> Job] /\ ToRecord(jobs') = 0
      /\ \A call : call # "none" => InJobs(jobs', call) = 0
      /\ \A j \in Jobs : jobs'[j].tx = NoTx
  <2>1. Idle.tx = NoTx
    BY DEF Idle
  <2> QED BY <1>2, <2>1, IdleJobs
<1>6. late' \in Seq(Txs)
  BY <1>2, <1>3, <1>4
<1>7. ASSUME NEW call \in Later
      PROVE  InJobs(jobs', call) + InLate(late', call) <= Outstanding(call)
  <2>1. call # "none"
    BY DEF Later
  <2>2. InLate(late', call) = InLate(late, call) + InLate(q, call)
    BY <1>2, <1>3, <1>4, <2>1, LateJoined
  <2>3. InJobs(jobs, call) \in Nat /\ InLate(late, call) \in Nat /\ InLate(q, call) \in Nat
    BY <1>3, <1>4, <2>1, InJobsNat, LateNat
  <2>4. InJobs(jobs', call) = 0 /\ InLate(q, call) <= InJobs(jobs, call)
    BY <1>4, <1>5, <2>1
  <2> QED BY ONLY <2>2, <2>3, <2>4 DEF Outstanding
<1>8. \A j \in Jobs : Amount(jobs'[j].tx, "harvest_rewards") <= Wealth
  <2>1. Amount(NoTx, "harvest_rewards") = 0 /\ Wealth \in Nat
    BY WealthNat DEF Amount, NoTx
  <2> QED BY <1>5, <2>1
<1>9. \A i \in 1..Len(late') : Amount(late'[i], "harvest_rewards") <= Wealth
  <2> SUFFICES ASSUME NEW i \in 1..Len(late')
               PROVE  Amount(late'[i], "harvest_rewards") <= Wealth
    OBVIOUS
  <2>1. Len(late) \in Nat /\ Len(q) \in Nat /\ Len(late') = Len(late) + Len(q)
    BY <1>2, <1>3, <1>4
  <2>2. CASE i <= Len(late)
    <3>1. late'[i] = late[i] /\ i \in 1..Len(late)
      BY <1>2, <1>3, <1>4, <2>1, <2>2
    <3> QED BY <3>1 DEF WorkerInv, Earned
  <2>3. CASE ~(i <= Len(late))
    <3>1. late'[i] = q[i - Len(late)] /\ i - Len(late) \in 1..Len(q)
      BY <1>2, <1>3, <1>4, <2>1, <2>3
    <3>2. PICK j \in Jobs : late'[i] = jobs[j].tx
      BY <1>4, <3>1
    <3> QED BY <3>2 DEF WorkerInv, Earned
  <2> QED BY <2>2, <2>3
<1>10. <<>> \in Seq(Record)
  OBVIOUS
<1>11. ASSUME NEW recs \in {records', file'}, NEW x \in Nat
       PROVE  \E old \in {records, file} :
                CompleteBy(recs, x)
                    + (IF x >= network_era + UNBONDING_PERIOD THEN ToRecord(jobs') ELSE 0)
                  <= CompleteBy(old, x)
                       + (IF x >= network_era + UNBONDING_PERIOD THEN ToRecord(jobs) ELSE 0)
  <2>1. CompleteBy(file, x) \in Nat /\ CompleteBy(<<>>, x) = 0
    BY <1>3, RecordSums
  <2>2. CompleteBy(recs, x) \in Nat /\ CompleteBy(recs, x) <= CompleteBy(file, x)
    <3>1. recs = file \/ recs = <<>>
      BY <1>2
    <3> QED BY <2>1, <3>1
  <2>3. ToRecord(jobs) \in Nat /\ ToRecord(jobs') = 0
    BY <1>3, <1>5, InJobsNat
  <2> QED BY <2>1, <2>2, <2>3
<1>12. UNCHANGED <<stakingVars, auctionVars>>
  BY <1>2
<1>13. records' \in Seq(Record) /\ file' \in Seq(Record)
  BY <1>2, <1>3, <1>10
<1> QED BY <1>5, <1>6, <1>7, <1>8, <1>9, <1>11, <1>12, <1>13, Handled

-----------------------------------------------------------------------------
(***************************************************************************)
(* The users and the network.                                              *)
(***************************************************************************)
Asked(r) == SumFunction([id \in DOMAIN r |-> r[id].amount])

LEMMA NewAskedSum ==
  ASSUME NEW n \in Nat, NEW r \in [1..n -> Requests], NEW r2 \in [1..(n + 1) -> Requests],
         \A i \in 1..n : r2[i] = r[i]
  PROVE  Asked(r2) = Asked(r) + r2[n + 1].amount
<1> DEFINE a == [id \in DOMAIN r |-> r[id].amount]
           a2 == [id \in DOMAIN r2 |-> r2[id].amount]
           S == 1..(n + 1)
           k == n + 1
<1>1. k \in S /\ S \ {k} = 1..n /\ 1..n \subseteq S
  OBVIOUS
<1>2. IsFiniteSet(1..n) /\ IsFiniteSet(S)
  BY Finite
<1>3. \A req \in Requests : req.amount \in Nat
  BY DEF Requests
<1>4. /\ DOMAIN a = 1..n /\ DOMAIN a2 = S
      /\ \A i \in 1..n : a[i] \in Int /\ a2[i] = a[i]
      /\ \A i \in S : a2[i] \in Int
      /\ a2[k] = r2[n + 1].amount
  BY <1>1, <1>3
<1>5. Asked(r) = SumFunctionOnSet(a, 1..n) /\ Asked(r2) = SumFunctionOnSet(a2, S)
  BY <1>4 DEF Asked, SumFunction
<1> HIDE DEF a, a2, S, k
<1>6. SumFunctionOnSet(a2, S) = a2[k] + SumFunctionOnSet(a2, S \ {k})
  BY ONLY <1>1, <1>2, <1>4, SumOnSplit
<1>7. SumFunctionOnSet(a2, 1..n) = SumFunctionOnSet(a, 1..n)
  BY <1>2, <1>4, SumOnCong
<1>8. SumFunctionOnSet(a, 1..n) \in Int /\ a2[k] \in Int
  BY <1>1, <1>2, <1>4, SumOnInt
<1>9. S \ {k} = 1..n /\ a2[k] = r2[n + 1].amount
  BY <1>1, <1>4
<1>10. SumFunctionOnSet(a2, S) = a2[k] + SumFunctionOnSet(a2, 1..n)
  BY ONLY <1>6, <1>9
<1>11. SumFunctionOnSet(a2, S) = SumFunctionOnSet(a, 1..n) + a2[k]
  BY ONLY <1>7, <1>8, <1>10
<1>12. Asked(r2) = Asked(r) + a2[k]
  BY ONLY <1>5, <1>11
<1> QED BY ONLY <1>9, <1>12

\* What users do leaves the differences the invariant is about alone.
UserAfter ==
  /\ IInv'
  /\ Principal' + Requested' - SumFunction(pending_delegations') =
       Principal + Requested - SumFunction(pending_delegations)
  /\ Requested' - SumFunction(pending_undelegations') =
       Requested - SumFunction(pending_undelegations)
  /\ total_staked' + total_pending_withdrawal' - purse' =
       total_staked + total_pending_withdrawal - purse
  /\ network_era' = network_era

LEMMA StakeDoes ==
  ASSUME IInv, WorkerTypes, NEW user \in Users, NEW v \in Validators, NEW amount \in StakeAmounts,
         NEW p_score \in Scores, NEW p_avg \in Averages,
         Stake(user, v, amount, p_score, p_avg)
  PROVE  UserAfter
<1>1. IInv'
  BY StakeStep
<1>2. /\ amount \in Nat /\ Principal' = Principal + amount
      /\ SumFunction(pending_delegations') = SumFunction(pending_delegations) + amount
      /\ pending_undelegations' = pending_undelegations
  BY StakeQueues
<1>3. UNCHANGED <<requestVars, adminVars>> /\ total_staked' = total_staked + amount
      /\ purse' = purse + amount
  BY DEF Stake
<1>4. /\ withdrawal_requests' = withdrawal_requests /\ network_era' = network_era
      /\ total_pending_withdrawal' = total_pending_withdrawal
  BY <1>3 DEF requestVars, adminVars
<1>5. Requested' = Requested
  BY <1>4 DEF Requested
<1>6. /\ Principal \in Nat /\ Requested \in Nat /\ purse \in Nat
      /\ SumFunction(pending_delegations) \in Nat /\ SumFunction(pending_undelegations) \in Nat
      /\ total_staked \in Nat /\ total_pending_withdrawal \in Nat
  BY Numbers
<1>7. total_staked' = total_staked + amount /\ purse' = purse + amount
  BY <1>3
<1>8. SumFunction(pending_undelegations') = SumFunction(pending_undelegations)
  BY <1>2
<1>9. Principal' + Requested' - SumFunction(pending_delegations') =
        Principal + Requested - SumFunction(pending_delegations)
  BY ONLY <1>2, <1>5, <1>6
<1>10. total_staked' + total_pending_withdrawal' - purse' =
         total_staked + total_pending_withdrawal - purse
  BY ONLY <1>2, <1>4, <1>6, <1>7
<1> QED BY <1>1, <1>4, <1>5, <1>8, <1>9, <1>10 DEF UserAfter

LEMMA UnstakeDoes ==
  ASSUME IInv, WorkerTypes, NEW user \in Users, NEW v \in Validators, NEW amount \in TokenAmounts,
         NEW era \in Nat, Unstake(user, v, amount, era)
  PROVE  UserAfter
<1> DEFINE c == CsprFor(amount)
           n == next_request_id - 1
           r == withdrawal_requests
           r2 == withdrawal_requests'
<1>1. IInv'
  BY UnstakeStep
<1>2. /\ c \in Nat /\ Principal' = Principal - c
      /\ SumFunction(pending_undelegations') = SumFunction(pending_undelegations) + c
      /\ pending_delegations' = pending_delegations
  BY UnstakeQueues
<1>3. /\ Principal \in Nat /\ Requested \in Nat /\ purse \in Nat
      /\ SumFunction(pending_delegations) \in Nat /\ SumFunction(pending_undelegations) \in Nat
      /\ total_staked \in Nat /\ total_pending_withdrawal \in Nat
  BY Numbers
<1>4. Requested' = Requested + c
  <2>1. n \in Nat /\ next_request_id = n + 1 /\ RequestIds = 1..n /\ next_request_id' = n + 2
    BY DEF IInv, TypeOK, RequestIds, Unstake
  <2>2. r \in [1..n -> Requests]
    BY <2>1 DEF IInv, TypeOK
  <2>3. r2 \in [1..(n + 1) -> Requests]
    <3>1. r2 \in [RequestIds' -> Requests]
      BY <1>1 DEF IInv, TypeOK
    <3>2. RequestIds' = 1..(n + 1)
      BY <2>1 DEF RequestIds
    <3> QED BY <3>1, <3>2
  <2>4. /\ \A i \in 1..n : r2[i] = r[i]
        /\ r2[n + 1].amount = c
    <3>1. /\ \A i \in 1..n : i \in 1..(n + 1) /\ i # n + 1
          /\ n + 1 \in 1..(n + 1)
      BY <2>1
    <3>2. r2 = [i \in 1..(n + 1) |->
                  IF i # n + 1 THEN r[i]
                  ELSE [user |-> user, amount |-> c,
                        unlock_era |-> (era + UNBONDING_DELAY) % U64, status |-> "Pending"]]
      BY <2>1 DEF Unstake
    <3> HIDE DEF n, c, r, r2
    <3> QED BY <3>1, <3>2
  <2>5. Requested = Asked(r) /\ Requested' = Asked(r2)
    BY DEF Requested, Asked
  <2> HIDE DEF n, r, r2
  <2>6. Asked(r2) = Asked(r) + r2[n + 1].amount
    BY <2>1, <2>2, <2>3, <2>4, NewAskedSum
  <2> QED BY <2>4, <2>5, <2>6
<1>5. total_staked' = total_staked - c /\ total_pending_withdrawal' = total_pending_withdrawal + c
      /\ purse' = purse /\ network_era' = network_era
  <2>1. /\ c <= total_staked \div 10 /\ total_staked' = CheckedSub(total_staked, c)
        /\ total_pending_withdrawal' = total_pending_withdrawal + c
        /\ purse' = purse /\ UNCHANGED adminVars
    BY DEF Unstake
  <2> HIDE DEF c
  <2>2. c <= total_staked
    BY <1>2, <1>3, <2>1
  <2> QED BY <1>2, <2>1, <2>2 DEF CheckedSub, adminVars
<1>6. SumFunction(pending_delegations') = SumFunction(pending_delegations)
  BY <1>2
<1> HIDE DEF c
<1>7. Principal' + Requested' - SumFunction(pending_delegations') =
        Principal + Requested - SumFunction(pending_delegations)
  BY ONLY <1>2, <1>3, <1>4, <1>6
<1>8. Requested' - SumFunction(pending_undelegations') =
        Requested - SumFunction(pending_undelegations)
  BY ONLY <1>2, <1>3, <1>4
<1>9. total_staked' + total_pending_withdrawal' - purse' =
        total_staked + total_pending_withdrawal - purse
  BY ONLY <1>2, <1>3, <1>5
<1> QED BY <1>1, <1>5, <1>7, <1>8, <1>9 DEF UserAfter

LEMMA ClaimDoes ==
  ASSUME IInv, WorkerTypes, NEW user \in Users, NEW era, Claim(user, era)
  PROVE  UserAfter
<1> DEFINE claimed == Maturing(user, era)
           n == next_request_id - 1
           r == withdrawal_requests
           r2 == withdrawal_requests'
           total == SumFunctionOnSet([id \in claimed |-> r[id].amount], claimed)
<1>1. IInv'
  BY ClaimStep
<1>2. /\ Principal \in Nat /\ Requested \in Nat /\ purse \in Nat
      /\ SumFunction(pending_delegations) \in Nat /\ SumFunction(pending_undelegations) \in Nat
      /\ total_staked \in Nat /\ total_pending_withdrawal \in Nat
  BY Numbers
<1>3. /\ UNCHANGED <<stakeVars, delegateVars, adminVars>>
      /\ r2 = [i \in DOMAIN r |-> IF i \in claimed THEN AsClaimed(r[i]) ELSE r[i]]
      /\ total_pending_withdrawal' = CheckedSub(total_pending_withdrawal, total)
      /\ purse' = purse - total
  BY DEF Claim
<1>4. /\ Principal' = Principal /\ total_staked' = total_staked /\ network_era' = network_era
      /\ pending_delegations' = pending_delegations
      /\ pending_undelegations' = pending_undelegations
  BY <1>3 DEF stakeVars, delegateVars, adminVars, Principal
<1>5. /\ n \in Nat /\ r \in [1..n -> Requests] /\ claimed \in SUBSET (1..n)
      /\ \A i \in claimed : r[i].status = "Pending"
  <2>1. n \in Nat /\ RequestIds = 1..n
    BY DEF IInv, TypeOK, RequestIds
  <2>2. r \in [1..n -> Requests] /\ user_pending_withdrawals[user] \subseteq 1..n
    BY <2>1 DEF IInv, TypeOK
  <2> QED BY <2>1, <2>2 DEF Maturing
<1>6. r2 = [i \in 1..n |-> IF i \in claimed THEN AsClaimed(r[i]) ELSE r[i]]
  BY <1>3, <1>5
<1>7. Requested' = Requested
  <2>1. Requested = Asked(r) /\ Requested' = Asked(r2)
    BY DEF Requested, Asked
  <2>2. \A i \in 1..n : r2[i].amount = r[i].amount
    <3>1. \A i \in 1..n : r[i] \in Requests
      BY <1>5
    <3> HIDE DEF r, r2, claimed, n
    <3> QED BY <1>6, <3>1, AsClaimedType
  <2>3. DOMAIN r = 1..n /\ DOMAIN r2 = 1..n
    BY <1>5, <1>6
  <2> HIDE DEF r, r2, claimed, n
  <2>4. [i \in DOMAIN r |-> r[i].amount] = [i \in DOMAIN r2 |-> r2[i].amount]
    BY <2>2, <2>3
  <2> QED BY <2>1, <2>4 DEF Asked
<1>8. total \in Nat /\ total <= total_pending_withdrawal
  <2>1. total_pending_withdrawal = SumFunction(RequestAmounts(r, {"Pending"}))
    BY DEF IInv, PendingIsSum
  <2> HIDE DEF n, r, r2, claimed
  <2>2. /\ total \in Nat
        /\ SumFunction(RequestAmounts(r2, {"Pending"})) \in Nat
        /\ SumFunction(RequestAmounts(r, {"Pending"})) =
             SumFunction(RequestAmounts(r2, {"Pending"})) + total
    BY <1>5, <1>6, ClaimSum
  <2> HIDE DEF total
  <2> QED BY <2>1, <2>2
<1> HIDE DEF total
<1>9. total_pending_withdrawal' = total_pending_withdrawal - total
  BY <1>3, <1>8 DEF CheckedSub
<1>10. purse' = purse - total
  BY <1>3
<1>11. total_staked' + total_pending_withdrawal' - purse' =
         total_staked + total_pending_withdrawal - purse
  BY ONLY <1>2, <1>4, <1>8, <1>9, <1>10
<1> QED BY <1>1, <1>4, <1>7, <1>11 DEF UserAfter

LEMMA TransferDoes ==
  ASSUME IInv, WorkerTypes, NEW from \in Users, NEW to \in Users, NEW amount \in TokenAmounts,
         TransferYSCSPR(from, to, amount)
  PROVE  UserAfter
<1>1. IInv'
  BY TransferStep
<1>2. UNCHANGED <<stakeVars, requestVars, delegateVars, adminVars, purse>>
  BY DEF TransferYSCSPR
<1>3. /\ Principal' = Principal /\ Requested' = Requested
      /\ UNCHANGED <<total_staked, total_pending_withdrawal, pending_delegations,
                     pending_undelegations, network_era, purse>>
  BY <1>2 DEF Principal, Requested, stakeVars, requestVars, delegateVars, adminVars
<1>4. /\ Principal \in Nat /\ Requested \in Nat
      /\ SumFunction(pending_delegations) \in Nat /\ SumFunction(pending_undelegations) \in Nat
  BY Numbers
<1> QED BY <1>1, <1>3, <1>4 DEF UserAfter

\* The numbers of the books, of the next state.
LEMMA BooksNumbersNext ==
  ASSUME IInv'
  PROVE  /\ Principal' \in Nat /\ Requested' \in Nat /\ purse' \in Nat
         /\ SumFunction(pending_delegations') \in Nat
         /\ SumFunction(pending_undelegations') \in Nat
         /\ total_staked' \in Nat /\ total_pending_withdrawal' \in Nat
<1>1. Principal' \in Nat
  BY Finiteness, SumLedger DEF IInv, TypeOK, Principal
<1>2. Requested' \in Nat
  <2> DEFINE f == [id \in DOMAIN withdrawal_requests' |-> withdrawal_requests'[id].amount]
             D == RequestIds'
  <2>1. D = 1..(next_request_id' - 1) /\ next_request_id' - 1 \in Nat
    <3>1. TypeOK'
      BY DEF IInv
    <3>2. D = 1..(next_request_id' - 1)
      BY DEF RequestIds
    <3>3. next_request_id' \in Nat \ {0}
      BY <3>1 DEF TypeOK
    <3>4. \A n \in Nat \ {0} : n - 1 \in Nat
      OBVIOUS
    <3>5. next_request_id' - 1 \in Nat
      BY ONLY <3>3, <3>4, Zenon
    <3> QED BY ONLY <3>2, <3>5
  <2>2. withdrawal_requests' \in [D -> Requests] /\ IsFiniteSet(D)
    BY <2>1, Finite DEF IInv, TypeOK
  <2> HIDE DEF D
  <2>3. f \in [D -> Nat]
    BY <2>2 DEF Requests
  <2> HIDE DEF f
  <2>4. SumFunction(f) \in Nat
    BY <2>2, <2>3, SumLedger
  <2> QED BY <2>4 DEF Requested, f
<1>3. SumFunction(pending_delegations') \in Nat /\ SumFunction(pending_undelegations') \in Nat
  BY PendingFinite DEF IInv, TypeOK
<1>4. purse' \in Nat /\ total_staked' \in Nat /\ total_pending_withdrawal' \in Nat
  BY DEF IInv, TypeOK
<1> QED BY <1>1, <1>2, <1>3, <1>4

LEMMA UserCallStep ==
  ASSUME WorkerInv, UserCall
  PROVE  WorkerInv'
<1> DEFINE cd == Outstanding("confirm_delegation")
           cu == Outstanding("confirm_undelegation")
<1>1. IInv /\ WorkerTypes /\ Honest /\ Backed /\ Earned
  BY DEF WorkerInv
<1>2. UserAfter
  <2>2. ASSUME NEW user \in Users, NEW v \in Validators, NEW amount \in StakeAmounts,
               NEW p_score \in Scores, NEW p_avg \in Averages,
               Stake(user, v, amount, p_score, p_avg)
        PROVE  UserAfter
    BY <1>1, <2>2, StakeDoes
  <2>3. ASSUME NEW user \in Users, NEW v \in Validators, NEW amount \in TokenAmounts,
               NEW era \in EraArgs, Unstake(user, v, amount, era)
        PROVE  UserAfter
    BY <1>1, <2>3, EraArgsNat, UnstakeDoes
  <2>4. ASSUME NEW user \in Users, NEW era \in EraArgs, Claim(user, era)
        PROVE  UserAfter
    BY <1>1, <2>4, ClaimDoes
  <2>5. ASSUME NEW from \in Users, NEW to \in Users, NEW amount \in TokenAmounts,
               TransferYSCSPR(from, to, amount)
        PROVE  UserAfter
    BY <1>1, <2>5, TransferDoes
  <2> QED BY <2>2, <2>3, <2>4, <2>5 DEF UserCall
<1>3. /\ keeper_funds' = keeper_funds /\ delegated' = delegated /\ unbonding' = unbonding
      /\ executed' = executed /\ records' = records /\ file' = file
      /\ jobs' = jobs /\ late' = late
  BY DEF UserCall, auctionVars, trackerVars
<1>4. /\ Principal \in Nat /\ Requested \in Nat /\ purse \in Nat
      /\ SumFunction(pending_delegations) \in Nat /\ SumFunction(pending_undelegations) \in Nat
      /\ total_staked \in Nat /\ total_pending_withdrawal \in Nat /\ Wealth \in Int
      /\ cd \in Nat /\ cu \in Nat
      /\ executed.delegate \in Nat /\ executed.undelegate \in Nat
  BY <1>1, Numbers
<1>5. IInv' /\ network_era' = network_era
  BY <1>2 DEF UserAfter
<1>6. /\ Principal' \in Nat /\ Requested' \in Nat /\ purse' \in Nat
      /\ SumFunction(pending_delegations') \in Nat
      /\ SumFunction(pending_undelegations') \in Nat
      /\ total_staked' \in Nat /\ total_pending_withdrawal' \in Nat
  BY <1>5, BooksNumbersNext
<1>7. WorkerTypes'
  BY <1>1, <1>3, <1>5 DEF WorkerTypes
<1>8. /\ InJobs(jobs', "confirm_delegation") + InLate(late', "confirm_delegation") = cd
      /\ InJobs(jobs', "confirm_undelegation") + InLate(late', "confirm_undelegation") = cu
      /\ InJobs(jobs', "delegate") + InLate(late', "delegate") = Outstanding("delegate")
  BY <1>3 DEF Outstanding
<1>9. Honest'
  <2>1. /\ Principal + Requested - SumFunction(pending_delegations) + cd <= executed.delegate
        /\ Requested - SumFunction(pending_undelegations) + cu <= executed.undelegate
    BY <1>1 DEF Honest
  <2>2. /\ Principal' + Requested' - SumFunction(pending_delegations') =
             Principal + Requested - SumFunction(pending_delegations)
        /\ Requested' - SumFunction(pending_undelegations') =
             Requested - SumFunction(pending_undelegations)
    BY <1>2 DEF UserAfter
  <2> HIDE DEF cd, cu
  <2>3. Principal' + Requested' - SumFunction(pending_delegations') + cd <= executed.delegate
    BY ONLY <1>4, <1>6, <2>1, <2>2
  <2>4. Requested' - SumFunction(pending_undelegations') + cu <= executed.undelegate
    BY ONLY <1>4, <1>6, <2>1, <2>2
  <2> QED BY <1>3, <1>8, <2>3, <2>4, NextParts
<1>10. Backed'
  BY <1>1, <1>3, <1>5, <1>8, NextParts DEF Backed
<1>11. Earned'
  <2>1. Wealth' = Wealth
    BY <1>3 DEF Wealth
  <2>0. total_staked' + total_pending_withdrawal' - purse' =
          total_staked + total_pending_withdrawal - purse
    BY <1>2 DEF UserAfter
  <2>2. total_staked + total_pending_withdrawal <= purse + Wealth
    BY <1>1 DEF Earned
  <2>3. \A a, a2, b, b2, p, p2, w \in Int :
          a2 + b2 - p2 = a + b - p /\ a + b <= p + w => a2 + b2 <= p2 + w
    OBVIOUS
  <2>4. total_staked' + total_pending_withdrawal' <= purse' + Wealth
    <3>1. /\ total_staked \in Int /\ total_staked' \in Int
          /\ total_pending_withdrawal \in Int /\ total_pending_withdrawal' \in Int
          /\ purse \in Int /\ purse' \in Int /\ Wealth \in Int
      BY ONLY <1>4, <1>6
    <3> QED BY ONLY <2>0, <2>2, <2>3, <3>1, Zenon
  <2> QED BY <1>1, <1>3, <2>1, <2>4, NextParts DEF Earned
<1> QED BY <1>5, <1>7, <1>9, <1>10, <1>11 DEF WorkerInv

\* An era ends: what the auction releases has been unbonding, and the rewards
\* come on top.
LEMMA EraEndsStep ==
  ASSUME WorkerInv, EraEnds
  PROVE  WorkerInv'
<1> DEFINE era == network_era + 1
           out == unbonding[era]
<1>1. IInv /\ WorkerTypes /\ Honest /\ Backed /\ Earned
  BY DEF WorkerInv
<1>2. /\ network_era < MaxEra /\ network_era' = era
      /\ UNCHANGED <<stakeVars, requestVars, delegateVars, tokenVars, keeper,
                     last_harvest_era, purse>>
  BY DEF EraEnds, NewEra
<1>3. IInv'
  BY <1>1, AdminStep DEF EraEnds
<1>4. PICK reward \in Rewards :
        delegated' = [v \in Validators |-> IF delegated[v] = 0 THEN 0 ELSE delegated[v] + reward]
  BY DEF EraEnds
<1>5. /\ keeper_funds' = keeper_funds + unbonding[network_era']
      /\ unbonding' = [unbonding EXCEPT ![network_era'] = 0]
      /\ executed' = executed /\ records' = records /\ file' = file
      /\ jobs' = jobs /\ late' = late
  BY DEF EraEnds, trackerVars
<1>6. /\ Principal' = Principal /\ Requested' = Requested
      /\ pending_delegations' = pending_delegations
      /\ pending_undelegations' = pending_undelegations /\ purse' = purse
      /\ total_staked' = total_staked
      /\ total_pending_withdrawal' = total_pending_withdrawal
  <2>1. /\ stakeVars' = stakeVars /\ requestVars' = requestVars
        /\ delegateVars' = delegateVars /\ purse' = purse
    BY <1>2
  <2>2. user_stakes' = user_stakes /\ withdrawal_requests' = withdrawal_requests
    BY <2>1 DEF stakeVars, requestVars
  <2> QED BY <2>1, <2>2
        DEF Principal, Requested, stakeVars, requestVars, delegateVars
<1>7. /\ network_era \in Nat /\ era \in 1..MaxEra /\ era \in Eras /\ MaxEra \in Nat
      /\ UNBONDING_PERIOD \in Nat
  BY <1>1, <1>2, KeeperAssumption DEF WorkerTypes, Eras
<1>8. /\ unbonding \in [Eras -> Nat] /\ out \in Nat /\ delegated \in [Validators -> Nat]
      /\ keeper_funds \in Int /\ keeper_funds' = keeper_funds + out
  BY <1>1, <1>2, <1>5, <1>7 DEF WorkerTypes
<1>9. /\ unbonding' \in [Eras -> Nat] /\ unbonding'[era] = unbonding[era] - out
      /\ \A e \in Eras : e # era => unbonding'[e] = unbonding[e]
      /\ unbonding'[era] = 0
  BY <1>2, <1>5, <1>7, <1>8
<1>10. \A x \in Nat : /\ SumFunction(unbonding') = SumFunction(unbonding) - out
                      /\ ReleasedBy(unbonding', x) =
                           ReleasedBy(unbonding, x) - (IF era <= x THEN out ELSE 0)
  <2> SUFFICES ASSUME NEW x \in Nat
               PROVE  /\ SumFunction(unbonding') = SumFunction(unbonding) - out
                      /\ ReleasedBy(unbonding', x) =
                           ReleasedBy(unbonding, x) - (IF era <= x THEN out ELSE 0)
    OBVIOUS
  <2> DEFINE u2 == unbonding'
             d == 0 - out
  <2>1. /\ u2 \in [Eras -> Nat] /\ d \in Int /\ u2[era] = unbonding[era] + d
        /\ \A e \in Eras : e # era => u2[e] = unbonding[e]
    BY <1>8, <1>9
  <2> HIDE DEF u2, d, out, era
  <2>2. /\ SumFunction(u2) = SumFunction(unbonding) + d
        /\ ReleasedBy(u2, x) = ReleasedBy(unbonding, x) + (IF era <= x THEN d ELSE 0)
    BY <1>7, <1>8, <2>1, ReleasedMore
  <2>3. SumFunction(unbonding) \in Nat /\ ReleasedBy(unbonding, x) \in Nat
    BY <1>8, Released
  <2>4. d = 0 - out /\ u2 = unbonding'
    BY DEF d, u2
  <2> QED BY <1>8, <2>2, <2>3, <2>4
<1>11. /\ delegated' \in [Validators -> Nat]
       /\ \A v \in Validators : delegated[v] <= delegated'[v]
  BY <1>4, <1>8, KeeperAssumption
<1>12. SumFunction(delegated) <= SumFunction(delegated')
  <2> DEFINE new == delegated'
  <2>1. \A v \in Validators : delegated[v] \in Int /\ new[v] \in Int /\ delegated[v] <= new[v]
    BY <1>8, <1>11
  <2>2. DOMAIN delegated = Validators /\ DOMAIN new = Validators
    BY <1>8, <1>11
  <2> HIDE DEF new
  <2>3. SumFunctionOnSet(delegated, Validators) <= SumFunctionOnSet(new, Validators)
    BY <2>1, Finite, SumOnMono
  <2> QED BY <2>2, <2>3 DEF SumFunction, new
<1>13. WorkerTypes'
  <2>1. \A e \in Eras : e <= network_era' => unbonding'[e] = 0
    <3>1. \A e \in Eras : e <= era /\ e # era => e <= network_era
      BY <1>7 DEF Eras
    <3>2. \A e \in Eras : e <= network_era => unbonding[e] = 0
      BY <1>1 DEF WorkerTypes
    <3> QED BY <1>2, <1>9, <3>1, <3>2
  <2>2. /\ jobs' \in [Jobs -> Job] /\ late' \in Seq(Txs)
        /\ records' \in Seq(Record) /\ file' \in Seq(Record)
        /\ executed' \in [delegate : Nat, undelegate : Nat]
    BY <1>1, <1>5 DEF WorkerTypes
  <2>3. keeper_funds' \in Int /\ network_era' \in 1..MaxEra
    BY <1>2, <1>7, <1>8
  <2> QED BY <1>9, <1>11, <2>1, <2>2, <2>3 DEF WorkerTypes
<1>14. Honest'
  BY <1>1, <1>5, <1>6, NextParts DEF Honest, Outstanding
<1>15. Backed'
  <2> DEFINE ode == Outstanding("delegate")
             t == ToRecord(jobs)
  <2>1. ode \in Nat /\ t \in Nat
    BY <1>1, Numbers
  <2>2. ASSUME NEW recs \in {records, file}, NEW x \in Nat, x >= era
        PROVE  CompleteBy(recs, x) + (IF x >= era + UNBONDING_PERIOD THEN t ELSE 0)
                 <= keeper_funds' - ode + ReleasedBy(unbonding', x)
    <3> DEFINE c == CompleteBy(recs, x)
               due == IF x >= network_era + UNBONDING_PERIOD THEN t ELSE 0
               due2 == IF x >= era + UNBONDING_PERIOD THEN t ELSE 0
               r == ReleasedBy(unbonding, x)
    <3>1. c + due <= keeper_funds - ode + r
      BY <1>1, <1>7, <2>2 DEF Backed
    <3>2. c \in Nat /\ r \in Nat
      BY <1>1, <1>8, RecordSums, Released DEF WorkerTypes
    <3>3. due2 \in Nat /\ due \in Nat /\ due2 <= due
      <4> HIDE DEF t
      <4> QED BY <1>7, <2>1
    <3>4. ReleasedBy(unbonding', x) = r - out
      BY <1>10, <2>2
    <3> HIDE DEF c, r, due, due2, ode, out
    <3>5. c + due2 <= keeper_funds' - ode + ReleasedBy(unbonding', x)
      BY ONLY <1>8, <2>1, <3>1, <3>2, <3>3, <3>4
    <3> QED BY <3>5 DEF c, due2
  <2>3. InJobs(jobs', "delegate") + InLate(late', "delegate") = ode
    BY <1>5 DEF Outstanding
  <2> QED BY <1>2, <1>5, <2>2, <2>3, NextParts
<1>16. Earned'
  <2>1. Wealth \in Int /\ Wealth' \in Int /\ Wealth <= Wealth'
    <3>1. /\ SumFunction(delegated) \in Nat /\ SumFunction(unbonding) \in Nat
          /\ SumFunction(delegated') \in Nat /\ SumFunction(unbonding') \in Nat
      BY <1>3, <1>1, <1>13, Numbers, Finite, SumLedger DEF WorkerTypes
    <3>2. SumFunction(unbonding') = SumFunction(unbonding) - out
      BY <1>10
    <3>3. Wealth' = keeper_funds' + SumFunction(delegated') + SumFunction(unbonding')
      BY NextParts
    <3>4. Wealth = keeper_funds + SumFunction(delegated) + SumFunction(unbonding)
      BY DEF Wealth
    <3> HIDE DEF out
    <3> QED BY ONLY <1>8, <1>12, <3>1, <3>2, <3>3, <3>4
  <2>2. \A tx \in Txs \cup {NoTx} : Amount(tx, "harvest_rewards") \in Nat
    BY AmountNat
  <2>3. \A j \in Jobs : jobs[j].tx \in Txs \cup {NoTx}
    BY <1>1, JobParts DEF WorkerTypes
  <2>4. \A i \in 1..Len(late) : late[i] \in Txs
    BY <1>1 DEF WorkerTypes
  <2>5. \A j \in Jobs : Amount(jobs[j].tx, "harvest_rewards") <= Wealth'
    <3> SUFFICES ASSUME NEW j \in Jobs PROVE Amount(jobs[j].tx, "harvest_rewards") <= Wealth'
      OBVIOUS
    <3>1. Amount(jobs[j].tx, "harvest_rewards") \in Nat
      BY <2>2, <2>3
    <3>2. Amount(jobs[j].tx, "harvest_rewards") <= Wealth
      BY <1>1 DEF Earned
    <3> QED BY ONLY <2>1, <3>1, <3>2
  <2>6. \A i \in 1..Len(late) : Amount(late[i], "harvest_rewards") <= Wealth'
    <3> SUFFICES ASSUME NEW i \in 1..Len(late)
                 PROVE  Amount(late[i], "harvest_rewards") <= Wealth'
      OBVIOUS
    <3>1. Amount(late[i], "harvest_rewards") \in Nat
      BY <2>2, <2>4
    <3>2. Amount(late[i], "harvest_rewards") <= Wealth
      BY <1>1 DEF Earned
    <3> QED BY ONLY <2>1, <3>1, <3>2
  <2>7. total_staked + total_pending_withdrawal <= purse + Wealth'
    <3>1. total_staked \in Nat /\ total_pending_withdrawal \in Nat /\ purse \in Nat
      BY <1>1, Numbers
    <3> DEFINE owed == total_staked + total_pending_withdrawal
    <3>2. owed \in Nat
      BY <3>1
    <3>3. owed <= purse + Wealth
      BY <1>1 DEF Earned
    <3> HIDE DEF owed
    <3>4. \A a, b, c, d \in Int : a <= b + c /\ c <= d => a <= b + d
      OBVIOUS
    <3>5. owed \in Int /\ purse \in Int
      BY ONLY <3>1, <3>2
    <3>6. owed <= purse + Wealth'
      BY ONLY <2>1, <3>3, <3>4, <3>5, Zenon
    <3> QED BY <3>6 DEF owed
  <2> QED BY <1>5, <1>6, <2>5, <2>6, <2>7, NextParts
<1> QED BY <1>3, <1>13, <1>14, <1>15, <1>16 DEF WorkerInv

-----------------------------------------------------------------------------
(***************************************************************************)
(* The invariant of the worker's behaviours.                               *)
(***************************************************************************)
LEMMA WorkerStart == WorkerInit => WorkerInv
<1> SUFFICES ASSUME WorkerInit PROVE WorkerInv
  OBVIOUS
<1>1. IInv
  BY StakingInit DEF WorkerInit
<1>2. /\ jobs = [j \in Jobs |-> Idle] /\ records = <<>> /\ file = <<>> /\ keeper_funds = 0
      /\ delegated = [v \in Validators |-> 0] /\ unbonding = [e \in Eras |-> 0]
      /\ late = <<>> /\ executed = [delegate |-> 0, undelegate |-> 0]
  BY DEF WorkerInit
<1>3. /\ user_stakes = [s \in Stakes |-> 0] /\ total_staked = 0 /\ total_pending_withdrawal = 0
      /\ withdrawal_requests = [id \in {} |-> 0] /\ pending_delegations = [v \in {} |-> 0]
      /\ pending_undelegations = [v \in {} |-> 0] /\ network_era = 1 /\ purse = 0
  BY DEF WorkerInit, Init
<1>4. WorkerTypes
  <2>1. jobs \in [Jobs -> Job]
    BY <1>2, IdleJobs
  <2>2. late \in Seq(Txs) /\ records \in Seq(Record) /\ file \in Seq(Record)
    BY <1>2
  <2>3. executed \in [delegate : Nat, undelegate : Nat]
    BY <1>2
  <2>4. network_era \in 1..MaxEra
    BY <1>3, KeeperAssumption
  <2>5. /\ delegated \in [Validators -> Nat] /\ unbonding \in [Eras -> Nat]
        /\ \A e \in Eras : e <= network_era => unbonding[e] = 0
    BY <1>2
  <2> QED BY <1>2, <2>1, <2>2, <2>3, <2>4, <2>5 DEF WorkerTypes
<1>5. \A call : call # "none" => Outstanding(call) = 0
  <2>1. ASSUME NEW call, call # "none" PROVE Outstanding(call) = 0
    <3>1. InJobs(jobs, call) = 0
      BY <1>2, <2>1, IdleJobs
    <3>2. InLate(late, call) = 0
      <4>1. 1..Len(late) = {}
        BY <1>2
      <4> QED BY <4>1, SumOnEmpty DEF InLate
    <3> QED BY <3>1, <3>2 DEF Outstanding
  <2> QED BY <2>1
<1>6. /\ Principal = 0 /\ Requested = 0
      /\ SumFunction(pending_delegations) = 0 /\ SumFunction(pending_undelegations) = 0
      /\ SumFunction(delegated) = 0 /\ SumFunction(unbonding) = 0
  <2>1. \A f, S : IsFiniteSet(S) /\ DOMAIN f = S /\ (\A x \in S : f[x] = 0) => SumFunction(f) = 0
    <3> SUFFICES ASSUME NEW f, NEW S, IsFiniteSet(S), DOMAIN f = S, \A x \in S : f[x] = 0
                 PROVE  SumFunction(f) = 0
      OBVIOUS
    <3>1. SumFunctionOnSet(f, S) = 0
      BY SumOnZero
    <3> QED BY <3>1 DEF SumFunction
  <2>2. IsFiniteSet({})
    BY FS_EmptySet
  <2>3. SumFunction(pending_delegations) = 0 /\ SumFunction(pending_undelegations) = 0
    BY <1>3, <2>1, <2>2
  <2>4. SumFunction(delegated) = 0 /\ SumFunction(unbonding) = 0
    BY <1>2, <2>1, Finite
  <2>5. Principal = 0
    BY <1>3, <2>1, Finiteness DEF Principal
  <2>6. Requested = 0
    <3> DEFINE f == [id \in DOMAIN withdrawal_requests |-> withdrawal_requests[id].amount]
    <3>1. DOMAIN f = {} /\ \A x \in {} : f[x] = 0
      BY <1>3
    <3> HIDE DEF f
    <3>2. SumFunction(f) = 0
      BY <2>1, <2>2, <3>1
    <3> QED BY <3>2 DEF Requested, f
  <2> QED BY <2>3, <2>4, <2>5, <2>6
<1>7. Honest
  BY <1>2, <1>5, <1>6 DEF Honest
<1>8. Backed
  <2>1. \A x \in Nat : CompleteBy(<<>>, x) = 0
    <3>1. 1..Len(<<>>) = {}
      OBVIOUS
    <3> QED BY <3>1, SumOnEmpty DEF CompleteBy
  <2>2. ToRecord(jobs) = 0
    BY <1>2, IdleJobs
  <2>3. \A x \in Nat : ReleasedBy(unbonding, x) \in Nat
    BY <1>4, Released DEF WorkerTypes
  <2>4. Outstanding("delegate") = 0
    BY <1>5
  <2> QED BY <1>2, <2>1, <2>2, <2>3, <2>4 DEF Backed
<1>9. Earned
  <2>1. Wealth = 0
    BY <1>2, <1>6 DEF Wealth
  <2>2. \A j \in Jobs : Amount(jobs[j].tx, "harvest_rewards") = 0
    BY <1>2 DEF Amount, Idle, NoTx
  <2>3. 1..Len(late) = {}
    BY <1>2
  <2> QED BY <1>3, <2>1, <2>2, <2>3 DEF Earned
<1> QED BY <1>1, <1>4, <1>7, <1>8, <1>9 DEF WorkerInv

LEMMA WorkerStep == WorkerInv /\ [WorkerNext]_workerVars => WorkerInv'
<1> SUFFICES ASSUME WorkerInv, [WorkerNext]_workerVars PROVE WorkerInv'
  OBVIOUS
<1>1. ASSUME NEW j \in Jobs, NEW phases, StartHandler(j, phases) PROVE WorkerInv'
  <2>1. jobs[j].tx = NoTx /\ phases \in Handlers[j] /\ BeginPhase(j, phases)
    BY <1>1 DEF StartHandler, Idle
  <2>2. phases \in Seq(Phases) /\ phases # <<>>
    BY <2>1, KeeperAssumption
  <2> QED BY <2>1, <2>2, BeginPhaseStep
<1>2. ASSUME NEW j \in Jobs, NextPhase(j) PROVE WorkerInv'
  <2>1. jobs[j].phases \in Seq(Phases)
    BY JobParts DEF WorkerInv, WorkerTypes
  <2>2. jobs[j].tx = NoTx /\ jobs[j].phases # <<>> /\ BeginPhase(j, jobs[j].phases)
    BY <1>2 DEF NextPhase
  <2> QED BY <2>1, <2>2, BeginPhaseStep
<1>3. ASSUME NEW j \in Jobs, HandlerSteps(j) \/ GiveUp(j) PROVE WorkerInv'
  BY <1>2, <1>3, ExecuteStep, FinishEntryStep, GiveUpStep DEF HandlerSteps
<1>4. CASE \E phases \in Kinds : Starts(phases)
  BY <1>1, <1>4 DEF Starts
<1>5. CASE \E i \in DOMAIN late : ExecuteLate(i)
  BY <1>5, ExecuteLateStep
<1>6. CASE UserCall \/ Restart \/ EraEnds
  BY <1>6, UserCallStep, RestartStep, EraEndsStep
<1>7. CASE UNCHANGED workerVars
  <2>1. /\ UNCHANGED <<stakingVars, auctionVars, trackerVars>>
        /\ jobs' = jobs /\ late' = late
    BY <1>7 DEF workerVars
  <2>2. UNCHANGED vars /\ keeper_funds' = keeper_funds /\ delegated' = delegated
        /\ unbonding' = unbonding /\ executed' = executed
        /\ records' = records /\ file' = file
    BY <2>1 DEF stakingVars, auctionVars, trackerVars
  <2>3. /\ stakeVars' = stakeVars /\ requestVars' = requestVars
        /\ delegateVars' = delegateVars /\ adminVars' = adminVars /\ purse' = purse
    BY <2>2 DEF vars
  <2>4. /\ user_stakes' = user_stakes /\ withdrawal_requests' = withdrawal_requests
        /\ total_staked' = total_staked /\ network_era' = network_era
        /\ total_pending_withdrawal' = total_pending_withdrawal
        /\ pending_delegations' = pending_delegations
        /\ pending_undelegations' = pending_undelegations
    BY <2>3 DEF stakeVars, requestVars, delegateVars, adminVars
  <2>5. IInv'
    BY <2>2, StakingStep DEF WorkerInv
  <2>6. WorkerTypes'
    BY <2>1, <2>2, <2>4 DEF WorkerInv, WorkerTypes
  <2>7. Principal' = Principal /\ Requested' = Requested /\ Wealth' = Wealth
    BY <2>2, <2>4 DEF Principal, Requested, Wealth
  <2>8. Honest'
    BY <2>1, <2>2, <2>4, <2>7, NextParts DEF WorkerInv, Honest, Outstanding
  <2>9. Backed'
    BY <2>1, <2>2, <2>4, NextParts DEF WorkerInv, Backed, Outstanding
  <2>10. Earned'
    BY <2>1, <2>3, <2>4, <2>7, NextParts DEF WorkerInv, Earned
  <2> QED BY <2>5, <2>6, <2>8, <2>9, <2>10 DEF WorkerInv
<1> QED BY <1>3, <1>4, <1>5, <1>6, <1>7 DEF WorkerNext

LEMMA WorkerInvariant == WorkerSpec => []WorkerInv
BY WorkerStart, WorkerStep, PTL DEF WorkerSpec

-----------------------------------------------------------------------------
(***************************************************************************)
(* The theorems.                                                           *)
(***************************************************************************)
\* Whatever handlers overlap, retry, lose or leave to be executed late, the
\* books of the contract stay right: its totals are the sums they stand for, it
\* covers what users staked, and what awaits withdrawal is listed.
THEOREM BooksUnderWorker == WorkerSpec => [](IInv /\ WorkerTypes)
<1>1. WorkerInv => IInv /\ WorkerTypes
  BY DEF WorkerInv
<1> QED BY <1>1, WorkerInvariant, PTL

\* What left the contract's queues of delegations and undelegations was done,
\* each amount once, however many handlers confirm.
THEOREM HonestQueues == WorkerSpec => []QueuesAreHonest
<1>1. WorkerInv => QueuesAreHonest
  <2> SUFFICES ASSUME WorkerInv PROVE QueuesAreHonest
    OBVIOUS
  <2>1. /\ Principal \in Nat /\ Requested \in Nat
        /\ SumFunction(pending_delegations) \in Nat /\ SumFunction(pending_undelegations) \in Nat
        /\ executed.delegate \in Nat /\ executed.undelegate \in Nat
        /\ Outstanding("confirm_delegation") \in Nat
        /\ Outstanding("confirm_undelegation") \in Nat
    BY Numbers DEF WorkerInv
  <2>2. /\ Principal + Requested - SumFunction(pending_delegations)
             + Outstanding("confirm_delegation") <= executed.delegate
        /\ Requested - SumFunction(pending_undelegations)
             + Outstanding("confirm_undelegation") <= executed.undelegate
    BY DEF WorkerInv, Honest
  <2>3. /\ Principal + Requested - SumFunction(pending_delegations) <= executed.delegate
        /\ Requested - SumFunction(pending_undelegations) <= executed.undelegate
    BY ONLY <2>1, <2>2
  <2> QED BY <2>3 DEF QueuesAreHonest
<1> QED BY <1>1, WorkerInvariant, PTL

\* What the tracker takes to be ready is in the keeper's account, provided the
\* tracker waits no shorter than the auction.
THEOREM ReadyInAccount == WorkerSpec => []ReadyIsInAccount
<1>1. WorkerInv => ReadyIsInAccount
  <2> SUFFICES ASSUME WorkerInv PROVE ReadyIsInAccount
    OBVIOUS
  <2> DEFINE ready ==
        SumFunction([i \in DOMAIN GetReadyUnbondings |-> GetReadyUnbondings[i].amount])
             c == CompleteBy(records, network_era)
             ode == Outstanding("delegate")
             due == IF network_era >= network_era + UNBONDING_PERIOD THEN ToRecord(jobs) ELSE 0
  <2>1. /\ network_era \in Nat /\ keeper_funds \in Int /\ ode \in Nat /\ ToRecord(jobs) \in Nat
    BY Numbers DEF WorkerInv
  <2>2. ready <= c
    BY <2>1, ReadySum DEF WorkerInv, WorkerTypes
  <2>3. ready \in Nat /\ c \in Nat
    <3>1. c \in Nat
      BY <2>1, RecordSums DEF WorkerInv, WorkerTypes
    <3>2. ready \in Nat
      BY <2>1, ReadySum DEF WorkerInv, WorkerTypes
    <3> QED BY <3>1, <3>2
  <2>4. ReleasedBy(unbonding, network_era) = 0
    <3> DEFINE f == [e \in Eras |-> IF e <= network_era THEN unbonding[e] ELSE 0]
    <3>1. \A e \in Eras : f[e] = 0
      BY DEF WorkerInv, WorkerTypes
    <3> HIDE DEF f
    <3>2. SumFunctionOnSet(f, Eras) = 0
      BY <3>1, Finite, SumOnZero
    <3> QED BY <3>2 DEF ReleasedBy, f
  <2>5. c + due <= keeper_funds - ode + ReleasedBy(unbonding, network_era)
    BY <2>1 DEF WorkerInv, Backed
  <2>6. due \in Nat
    BY <2>1
  <2> HIDE DEF ready, c, ode, due
  <2>7. ready <= keeper_funds
    BY ONLY <2>1, <2>2, <2>3, <2>4, <2>5, <2>6
  <2> QED BY <2>7 DEF ReadyIsInAccount, ready
<1> QED BY <1>1, WorkerInvariant, PTL

\* The pool is worth what it says: total and withdrawals are covered by what is
\* in the purse, in the keeper's account, delegated and unbonding.
THEOREM PoolIsSolvent == WorkerSpec => []Solvent
<1>1. WorkerInv => Solvent
  <2> SUFFICES ASSUME WorkerInv PROVE Solvent
    OBVIOUS
  <2> DEFINE owed == total_staked + total_pending_withdrawal
             d == SumFunction(delegated)
             u == SumFunction(unbonding)
  <2>1. owed <= purse + Wealth
    BY DEF WorkerInv, Earned
  <2>2. Wealth = keeper_funds + d + u
    BY DEF Wealth
  <2>3. /\ purse \in Nat /\ keeper_funds \in Int /\ d \in Nat /\ u \in Nat
        /\ Wealth \in Int
        /\ total_staked \in Nat /\ total_pending_withdrawal \in Nat
    BY Numbers DEF WorkerInv
  <2>4. owed \in Nat
    BY <2>3
  <2> HIDE DEF owed, d, u
  <2>5. owed <= purse + keeper_funds + d + u
    BY ONLY <2>1, <2>2, <2>3, <2>4
  <2> QED BY <2>5 DEF Solvent, owed, d, u
<1> QED BY <1>1, WorkerInvariant, PTL

\* What the worker's steps are to the requests.
LEMMA WorkerMoves ==
  ASSUME WorkerInv, [WorkerNext]_workerVars
  PROVE  RequestsMove
<1>1. ASSUME UNCHANGED stakingVars PROVE RequestsMove
  BY <1>1, RequestStep DEF stakingVars
<1>2. ASSUME NEW tx, ContractCall(tx) PROVE RequestsMove
  BY <1>2 DEF RequestsMove, ContractCall, HarvestRewards, WithdrawForDelegation,
     ConfirmDelegation, ConfirmUndelegation, DepositFromUndelegation, requestVars
<1>3. ASSUME NEW tx, \/ ContractCall(tx) \/ Delegate(tx) \/ Undelegate(tx)
                     \/ UNCHANGED <<stakingVars, auctionVars>>
      PROVE  RequestsMove
  BY <1>1, <1>2, <1>3 DEF Delegate, Undelegate
<1>4. CASE \E phases \in Kinds : Starts(phases)
  BY <1>1, <1>4 DEF Starts, StartHandler, BeginPhase
<1>5. ASSUME NEW j \in Jobs, HandlerSteps(j) \/ GiveUp(j) PROVE RequestsMove
  <2>1. CASE Execute(j)
    BY <1>3, <2>1 DEF Execute
  <2>2. CASE NextPhase(j) \/ FinishEntry(j) \/ GiveUp(j)
    BY <1>1, <2>2 DEF NextPhase, BeginPhase, FinishEntry, GiveUp
  <2> QED BY <1>5, <2>1, <2>2 DEF HandlerSteps
<1>6. CASE \E i \in DOMAIN late : ExecuteLate(i)
  BY <1>3, <1>6 DEF ExecuteLate
<1>7. CASE UserCall
  <2>1. PICK user \in Users :
          \/ \E v \in Validators, amount \in StakeAmounts, p_score \in Scores, p_avg \in Averages :
               Stake(user, v, amount, p_score, p_avg)
          \/ \E v \in Validators, amount \in TokenAmounts, era \in EraArgs :
               Unstake(user, v, amount, era)
          \/ \E era \in EraArgs : Claim(user, era)
          \/ \E to \in Users, amount \in TokenAmounts : TransferYSCSPR(user, to, amount)
    BY <1>7 DEF UserCall
  <2>2. ASSUME NEW v, NEW amount, NEW p_score, NEW p_avg, Stake(user, v, amount, p_score, p_avg)
        PROVE  RequestsMove
    BY <2>2 DEF RequestsMove, Stake, requestVars
  <2>3. ASSUME NEW to, NEW amount, TransferYSCSPR(user, to, amount) PROVE RequestsMove
    BY <2>3 DEF RequestsMove, TransferYSCSPR, requestVars
  <2> QED BY <2>1, <2>2, <2>3 DEF RequestsMove
<1>8. CASE EraEnds
  BY <1>8 DEF EraEnds, NewEra, RequestsMove, requestVars
<1>9. CASE Restart \/ UNCHANGED workerVars
  BY <1>1, <1>9 DEF Restart, workerVars
<1> QED BY <1>4, <1>5, <1>6, <1>7, <1>8, <1>9 DEF WorkerNext

\* The promise to those who unstake is kept with the keeper at work: none of its
\* calls, however often or late it is executed, touches a request or pays a user,
\* and what is paid for a claim is in the purse whatever the keeper took from it.
THEOREM WorkerKeepsPromise == WorkerSpec => PromiseKept
<1>1. WorkerInit => Promise!Init
  BY PromiseInit DEF WorkerInit
<1>2. WorkerInv /\ WorkerInv' /\ [WorkerNext]_workerVars => [Promise!Next]_Promise!vars
  <2>1. WorkerInv' => IInv'
    BY DEF WorkerInv
  <2> QED BY <2>1, WorkerMoves, PromiseStep DEF WorkerInv
<1> QED BY <1>1, <1>2, WorkerInvariant, PTL DEF WorkerSpec, PromiseKept, Promise!Spec
=============================================================================
