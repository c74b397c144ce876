---------------------------- MODULE StayerVault ----------------------------
(***************************************************************************)
(* src/contracts/stayer: users lock ySCSPR in the vault and borrow cUSD    *)
(* against it; whoever holds cUSD may cover the debt of an unhealthy       *)
(* position and take its collateral at a bonus.                            *)
(*                                                                         *)
(* The vault is modelled with the two tokens it moves, both StayerToken.   *)
(* The oracle's price and the liquid staking contract's exchange rate are  *)
(* read anew in every call; here they are variables of the environment     *)
(* that change between calls in any way.  A call that reverts leaves no    *)
(* trace, in the tokens either, so each action is the call that succeeds.  *)
(* paused and the parameters are constants: no entry point changes them.   *)
(* Amounts are natural numbers (U256 in the code); a health factor has to  *)
(* fit U64, or the call reverts.                                           *)
(***************************************************************************)
EXTENDS Integers, FiniteSets, Functions

CONSTANTS
  Users,
  DEFAULT_LTV, DEFAULT_LIQ_THRESHOLD, DEFAULT_LIQ_PENALTY, DEFAULT_MIN_COLLATERAL,
  BASIS_POINTS,
  MOTES_PER_CSPR,        \* the precision of prices and exchange rates
  U64,                   \* 2^64, or less for TLC
  Endowment,             \* the ySCSPR each user holds as the vault is deployed
  YSCSPRAmounts, CUSDAmounts,  \* what a call may name
  Prices, Rates,         \* what the oracle and the exchange rate may be
  MaxDebt                \* bound on the cUSD borrowed

ASSUME VaultAssumption ==
  /\ IsFiniteSet(Users) /\ "StayerVault" \notin Users
  /\ BASIS_POINTS \in Nat \ {0} /\ MOTES_PER_CSPR \in Nat \ {0} /\ U64 \in Nat
  /\ DEFAULT_LTV \in Nat /\ DEFAULT_LIQ_THRESHOLD \in Nat
  /\ DEFAULT_LIQ_PENALTY \in Nat /\ DEFAULT_MIN_COLLATERAL \in Nat
  \* What may be borrowed is healthy.
  /\ DEFAULT_LTV <= DEFAULT_LIQ_THRESHOLD
  /\ Endowment \in Nat /\ MaxDebt \in Nat
  /\ YSCSPRAmounts \subseteq Nat /\ CUSDAmounts \subseteq Nat
  /\ Prices \subseteq Nat /\ Rates \subseteq Nat

VARIABLES
  positions,             \* of the users who ever deposited
  total_collateral, total_debt,
  y_balances, y_allowances, y_supply,   \* the ySCSPR token
  c_balances, c_supply,                 \* the cUSD token
  price, exchange_rate                  \* what the vault would read

vaultVars == <<positions, total_collateral, total_debt>>
yscsprVars == <<y_balances, y_allowances, y_supply>>
cusdVars == <<c_balances, c_supply>>
marketVars == <<price, exchange_rate>>
vars == <<vaultVars, yscsprVars, cusdVars, marketVars>>

Vault == "StayerVault"
Holders == Users \cup {Vault}

YSCSPR == INSTANCE StayerToken WITH
            Accounts <- Holders, Owner <- Vault, Minters <- {Vault}, InitialMinter <- Vault,
            Amounts <- YSCSPRAmounts, MaxSupply <- 0,
            balances <- y_balances, total_supply <- y_supply,
            allowances <- y_allowances, authorized_minters <- {}, grants <- {}

\* No call of the vault or of a user in this module uses a cUSD allowance.
CUSD == INSTANCE StayerToken WITH
            Accounts <- Users, Owner <- Vault, Minters <- {Vault}, InitialMinter <- Vault,
            Amounts <- CUSDAmounts, MaxSupply <- MaxDebt,
            balances <- c_balances, total_supply <- c_supply,
            allowances <- {}, authorized_minters <- {Vault}, grants <- {}

\* Its owner is its key; opened_at, which nothing reads, is left out.
Position == [collateral : Nat, debt : Nat, entry_price : Nat]

\* A user without a position counts as one with nothing in it.
Collateral(user) == IF user \in DOMAIN positions THEN positions[user].collateral ELSE 0
Debt(user) == IF user \in DOMAIN positions THEN positions[user].debt ELSE 0

TypeOK ==
  /\ DOMAIN positions \subseteq Users
  /\ positions \in [DOMAIN positions -> Position]
  /\ total_collateral \in Nat /\ total_debt \in Nat
  /\ y_balances \in [Holders -> Nat] /\ y_supply \in Nat
  /\ y_allowances \in [Holders \X Holders -> Nat]
  /\ c_balances \in [Users -> Nat] /\ c_supply \in Nat
  /\ price \in Prices /\ exchange_rate \in Rates

Init ==
  /\ positions = [user \in {} |-> 0]
  /\ total_collateral = 0 /\ total_debt = 0
  /\ y_balances = [h \in Holders |-> IF h = Vault THEN 0 ELSE Endowment]
  /\ y_supply = Endowment * Cardinality(Users)
  /\ y_allowances = [p \in Holders \X Holders |-> 0]
  /\ c_balances = [user \in Users |-> 0] /\ c_supply = 0
  /\ price \in Prices /\ exchange_rate \in Rates

(***************************************************************************)
(* Calculations.                                                           *)
(***************************************************************************)
\* checked_div(b).unwrap_or_default().
CheckedDiv(a, b) == IF b = 0 THEN 0 ELSE a \div b

CollateralToUsd(yscspr_amount) ==
  (((yscspr_amount * exchange_rate) \div MOTES_PER_CSPR) * price) \div MOTES_PER_CSPR

\* Mutant: the loan to value is applied upside down.
CalculateMaxDebtInverted(collateral) ==
  (CollateralToUsd(collateral) * BASIS_POINTS) \div DEFAULT_LTV

CalculateMaxDebt(collateral) ==
  (CollateralToUsd(collateral) * DEFAULT_LTV) \div BASIS_POINTS

\* In basis points; of a position with debt.
CalculateHealthFactor(collateral, debt) ==
  (CollateralToUsd(collateral) * DEFAULT_LIQ_THRESHOLD * BASIS_POINTS) \div (debt * BASIS_POINTS)

Healthy(collateral, debt) ==
  debt = 0 \/ CalculateHealthFactor(collateral, debt) >= BASIS_POINTS

\* A position that may be liquidated, and a mutant that asks nothing of it but
\* to exist.
AnyPosition(user) == user \in DOMAIN positions

IsLiquidatable(user) ==
  /\ user \in DOMAIN positions
  /\ ~Healthy(Collateral(user), Debt(user))

\* Mutant: every division rounds up.
DivUp(a, b) == IF b = 0 THEN 0 ELSE (a + b - 1) \div b
CalculateLiquidationAmountUp(debt_cover) ==
  LET usd_value_needed == DivUp(debt_cover * (BASIS_POINTS + DEFAULT_LIQ_PENALTY), BASIS_POINTS)
      cspr_needed == DivUp(usd_value_needed * MOTES_PER_CSPR, price)
  IN  DivUp(cspr_needed * MOTES_PER_CSPR, exchange_rate)

CalculateLiquidationAmount(debt_cover) ==
  LET usd_value_needed == (debt_cover * (BASIS_POINTS + DEFAULT_LIQ_PENALTY)) \div BASIS_POINTS
      cspr_needed == CheckedDiv(usd_value_needed * MOTES_PER_CSPR, price)
  IN  CheckedDiv(cspr_needed * MOTES_PER_CSPR, exchange_rate)

\* Mutant: the old value is lost.
CalculateNewPrice(old_price, old_amt, new_price, new_amt) ==
  (new_price * new_amt) \div (old_amt + new_amt)

CalculateWeightedPrice(old_price, old_amt, new_price, new_amt) ==
  (old_price * old_amt + new_price * new_amt) \div (old_amt + new_amt)

\* positions.set(user, ...): the user's position with new contents.
SetPosition(user, collateral, debt, entry_price) ==
  positions' = [u \in DOMAIN positions \cup {user} |->
                  IF u # user THEN positions[u]
                  ELSE [collateral |-> collateral, debt |-> debt, entry_price |-> entry_price]]

(***************************************************************************)
(* The vault's calls.                                                      *)
(***************************************************************************)
Deposit(user, amount) ==
  LET collateral == Collateral(user) + amount
  IN /\ amount # 0
     /\ YSCSPR!TransferFrom(Vault, user, Vault, amount)
     /\ collateral >= DEFAULT_MIN_COLLATERAL
     /\ SetPosition(user, collateral, Debt(user),
          IF Collateral(user) = 0 THEN price
          ELSE CalculateWeightedPrice(positions[user].entry_price, Collateral(user),
                                      price, amount))
     /\ total_collateral' = total_collateral + amount
     /\ UNCHANGED <<total_debt, y_supply, cusdVars, marketVars>>

Borrow(user, cusd_amount) ==
  LET new_total_debt == Debt(user) + cusd_amount
  IN /\ user \in DOMAIN positions
     /\ Collateral(user) # 0
     /\ new_total_debt <= CalculateMaxDebt(Collateral(user))
     /\ SetPosition(user, Collateral(user), new_total_debt, positions[user].entry_price)
     /\ total_debt' = total_debt + cusd_amount
     /\ CUSD!Mint(Vault, user, cusd_amount)
     /\ UNCHANGED <<total_collateral, yscsprVars, marketVars>>

\* Mutant: the total is forgotten.
RepayForgetsTotal(user, cusd_amount) ==
  /\ user \in DOMAIN positions
  /\ cusd_amount <= Debt(user)
  /\ CUSD!Burn(Vault, user, cusd_amount)
  /\ SetPosition(user, Collateral(user), Debt(user) - cusd_amount, positions[user].entry_price)
  /\ UNCHANGED <<total_collateral, total_debt, yscsprVars, marketVars>>

Repay(user, cusd_amount) ==
  /\ user \in DOMAIN positions
  /\ cusd_amount <= Debt(user)
  /\ CUSD!Burn(Vault, user, cusd_amount)
  /\ SetPosition(user, Collateral(user), Debt(user) - cusd_amount, positions[user].entry_price)
  /\ cusd_amount <= total_debt
  /\ total_debt' = total_debt - cusd_amount
  /\ UNCHANGED <<total_collateral, yscsprVars, marketVars>>

\* Mutant: the total is forgotten.
WithdrawForgetsTotal(user, yscspr_amount) ==
  /\ user \in DOMAIN positions
  /\ yscspr_amount <= Collateral(user)
  /\ Debt(user) # 0 =>
       CalculateHealthFactor(Collateral(user) - yscspr_amount, Debt(user))
         \in BASIS_POINTS..(U64 - 1)
  /\ SetPosition(user, Collateral(user) - yscspr_amount, Debt(user), positions[user].entry_price)
  /\ YSCSPR!Transfer(Vault, user, yscspr_amount)
  /\ UNCHANGED <<total_collateral, total_debt, cusdVars, marketVars>>

Withdraw(user, yscspr_amount) ==
  LET new_collateral == Collateral(user) - yscspr_amount
  IN /\ user \in DOMAIN positions
     /\ yscspr_amount <= Collateral(user)
     /\ Debt(user) # 0 =>
          CalculateHealthFactor(new_collateral, Debt(user)) \in BASIS_POINTS..(U64 - 1)
     /\ SetPosition(user, new_collateral, Debt(user), positions[user].entry_price)
     /\ yscspr_amount <= total_collateral
     /\ total_collateral' = total_collateral - yscspr_amount
     /\ YSCSPR!Transfer(Vault, user, yscspr_amount)
     /\ UNCHANGED <<total_debt, cusdVars, marketVars>>

Liquidate(liquidator, user, debt_to_cover) ==
  LET collateral_to_seize == CalculateLiquidationAmount(debt_to_cover)
  IN /\ IsLiquidatable(user)
     /\ debt_to_cover <= Debt(user)
     /\ collateral_to_seize <= Collateral(user)
     /\ CUSD!Burn(Vault, liquidator, debt_to_cover)
     /\ SetPosition(user, Collateral(user) - collateral_to_seize,
                    Debt(user) - debt_to_cover, positions[user].entry_price)
     /\ collateral_to_seize <= total_collateral /\ debt_to_cover <= total_debt
     /\ total_collateral' = total_collateral - collateral_to_seize
     /\ total_debt' = total_debt - debt_to_cover
     /\ YSCSPR!Transfer(Vault, liquidator, collateral_to_seize)
     /\ UNCHANGED marketVars

(***************************************************************************)
(* The environment.                                                        *)
(***************************************************************************)
ApproveVault(user, amount) ==
  /\ YSCSPR!Approve(user, Vault, amount)
  /\ UNCHANGED <<vaultVars, cusdVars, marketVars>>

\* To another holder, the vault included: then the vault holds more than it
\* accounts for.
TransferYSCSPR(user, to, amount) ==
  /\ YSCSPR!Transfer(user, to, amount)
  /\ UNCHANGED <<vaultVars, cusdVars, marketVars>>

TransferCUSD(user, to, amount) ==
  /\ CUSD!Transfer(user, to, amount)
  /\ UNCHANGED <<vaultVars, yscsprVars, marketVars>>

MarketMoves ==
  /\ price' \in Prices /\ exchange_rate' \in Rates
  /\ UNCHANGED <<vaultVars, yscsprVars, cusdVars>>

VaultNext ==
  \E user \in Users :
    \/ \E amount \in YSCSPRAmounts : Deposit(user, amount) \/ Withdraw(user, amount)
    \/ \E amount \in CUSDAmounts :
         \/ total_debt + amount <= MaxDebt /\ Borrow(user, amount)
         \/ Repay(user, amount)
         \/ \E liquidator \in Users : Liquidate(liquidator, user, amount)

HolderNext ==
  \E user \in Users :
    \/ \E amount \in YSCSPRAmounts :
         ApproveVault(user, amount) \/ \E to \in Holders : TransferYSCSPR(user, to, amount)
    \/ \E amount \in CUSDAmounts, to \in Users : TransferCUSD(user, to, amount)

Next == VaultNext \/ HolderNext \/ MarketMoves

Spec == Init /\ [][Next]_vars

(***************************************************************************)
(* What must hold of the books.                                            *)
(***************************************************************************)
\* The totals account for the positions.
TotalsAreSums ==
  /\ total_collateral = SumFunction([user \in Users |-> Collateral(user)])
  /\ total_debt = SumFunction([user \in Users |-> Debt(user)])

\* Every cUSD in circulation is some position's debt, and is owned by someone.
CUSDIsDebt == c_supply = total_debt /\ c_supply = SumFunction(c_balances)

\* The vault holds the collateral it accounts for: a withdrawal or liquidation
\* it has checked cannot fail at the token.
CollateralHeld == total_collateral <= y_balances[Vault]

(***************************************************************************)
(* What a step may never do.                                               *)
(***************************************************************************)
\* While the market stands still no call, of anyone, makes a healthy position
\* unhealthy: not the borrower's own borrowing or withdrawing.
HealthyStaysHealthy ==
  [][UNCHANGED marketVars =>
       \A user \in Users :
         Healthy(Collateral(user), Debt(user)) => Healthy(Collateral(user), Debt(user))']_vars

\* Collateral leaves a position only to its owner, or because it is unhealthy;
\* and a debt falls only as somebody's cUSD is burnt.
CollateralIsSafe ==
  [][\A user \in Users :
       /\ Collateral(user)' < Collateral(user) =>
            \/ y_balances'[user] - y_balances[user] = Collateral(user) - Collateral(user)'
            \/ ~Healthy(Collateral(user), Debt(user))
       /\ Debt(user)' < Debt(user) =>
            SumFunction(c_balances) - SumFunction(c_balances') = Debt(user) - Debt(user)']_vars

\* A liquidator never takes collateral worth more than the debt covered and
\* the penalty on it: every rounding is in the borrower's favour.
SeizureIsBounded ==
  [][\A user \in Users :
       Debt(user)' < Debt(user) /\ Collateral(user)' < Collateral(user) =>
         CollateralToUsd(Collateral(user) - Collateral(user)') * BASIS_POINTS
           <= (Debt(user) - Debt(user)') * (BASIS_POINTS + DEFAULT_LIQ_PENALTY)]_vars

\* The entry price moves only by a deposit, and then not beyond the price of
\* the deposit.
EntryPriceIsAverage ==
  [][\A user \in DOMAIN positions :
       LET old == positions[user].entry_price
           new == positions'[user].entry_price
       IN  /\ new # old => Collateral(user)' > Collateral(user)
           /\ Collateral(user) # 0 => new \in (old..price) \cup (price..old)]_vars

(***************************************************************************)
(* What the documents say and the code does not do.                        *)
(***************************************************************************)
\* "Liquidation Threshold | 110% | Min collateral ratio": what a withdrawal
\* leaves behind is worth at least 110% of the debt.
MinCollateralRatio ==
  [][\A user \in Users :
       Collateral(user)' < Collateral(user) /\ Debt(user)' = Debt(user) =>
         CollateralToUsd(Collateral(user))' * BASIS_POINTS
           >= Debt(user)' * DEFAULT_LIQ_THRESHOLD]_vars
=============================================================================
