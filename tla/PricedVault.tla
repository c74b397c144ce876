---------------------------- MODULE PricedVault ----------------------------
(***************************************************************************)
(* The vault with the oracle it asks: what StayerVault has as a price that *)
(* moves in any way is here the answer of PriceOracle's GetPrice, read in  *)
(* every call.  The pool's exchange rate still moves in any way.           *)
(***************************************************************************)
EXTENDS Integers

CONSTANTS
  \* the oracle's, see PriceOracle
  Owner, Updaters, StyksContracts, InitialPrice, MIN_ACCEPTABLE_PRICE,
  MAX_ACCEPTABLE_PRICE, MAX_AGE_DEFAULT, Prices, MaxAges, MaxTime, MaxRound,
  \* the vault's, see StayerVault
  Users, DEFAULT_LTV, DEFAULT_LIQ_THRESHOLD, DEFAULT_LIQ_PENALTY,
  DEFAULT_MIN_COLLATERAL, BASIS_POINTS, MOTES_PER_CSPR, U64, Endowment,
  YSCSPRAmounts, CUSDAmounts, Rates, MaxDebt

VARIABLES
  price_data, max_age, styks_oracle, updaters, fallback_price, use_fallback,
  now, reports,                                  \* see PriceOracle
  positions, total_collateral, total_debt, y_balances, y_allowances, y_supply,
  c_balances, c_supply, exchange_rate            \* see StayerVault

Oracle == INSTANCE PriceOracle
Vault == INSTANCE StayerVault WITH price <- Oracle!GetPrice, Prices <- Nat

oracleVars == <<price_data, max_age, styks_oracle, updaters, fallback_price, use_fallback,
                now, reports>>
bookVars == <<positions, total_collateral, total_debt, y_balances, y_allowances, y_supply,
              c_balances, c_supply>>
vars == <<oracleVars, bookVars, exchange_rate>>

Init == Oracle!Init /\ Vault!Init

VaultStep == UNCHANGED oracleVars /\ (Vault!VaultNext \/ Vault!HolderNext)

OracleStep == Oracle!Next /\ UNCHANGED <<bookVars, exchange_rate>>

RateMoves ==
  /\ exchange_rate' \in Rates
  /\ UNCHANGED <<oracleVars, bookVars>>

Next == VaultStep \/ OracleStep \/ RateMoves

Spec == Init /\ [][Next]_vars

(***************************************************************************)
(* What the documents say and the code does not do.                        *)
(***************************************************************************)
Borrows(user) == Vault!Debt(user)' > Vault!Debt(user)

IsLiquidated(user) ==
  /\ Vault!Debt(user)' < Vault!Debt(user)
  /\ Vault!Collateral(user)' < Vault!Collateral(user)

\* "When the T_stale threshold is breached, the protocol automatically halts all
\* borrowing and liquidation operations": while the oracle's own test says that
\* its price is stale nobody borrows and nobody is liquidated.
StaleHalts ==
  [][Oracle!IsPriceStale => \A user \in Users : ~Borrows(user) /\ ~IsLiquidated(user)]_vars
=============================================================================
