------------------------ MODULE StayerVault_proofs ------------------------
(***************************************************************************)
(* The books of the vault, and what no call may do to a position: what TLC *)
(* checks on the instances of MCStayerVault, for any users and amounts and *)
(* any movement of the price and the exchange rate.                        *)
(***************************************************************************)
EXTENDS StayerVault, SumLemmas

LEMMA DivNat ==
  ASSUME NEW a \in Nat, NEW b \in Nat \ {0}
  PROVE  a \div b \in Nat /\ (a \div b) * b <= a
OBVIOUS

LEMMA CheckedDivNat ==
  ASSUME NEW a \in Nat, NEW b \in Nat
  PROVE  CheckedDiv(a, b) \in Nat /\ CheckedDiv(a, b) * b <= a
<1>1. CASE b = 0
  BY <1>1 DEF CheckedDiv
<1>2. CASE b # 0
  BY <1>2, DivNat DEF CheckedDiv
<1> QED BY <1>1, <1>2

LEMMA Finiteness == IsFiniteSet(Users) /\ IsFiniteSet(Holders) /\ Vault \notin Users
<1>1. IsFiniteSet(Users) /\ Vault \notin Users
  BY VaultAssumption DEF Vault
<1>2. IsFiniteSet({Vault})
  BY FS_Singleton
<1>3. IsFiniteSet(Users \cup {Vault})
  BY <1>1, <1>2, FS_Union
<1> QED BY <1>1, <1>3 DEF Holders

(***************************************************************************)
(* The invariant, in parts that are about different variables.             *)
(***************************************************************************)
CollateralMap == [user \in Users |-> Collateral(user)]
DebtMap == [user \in Users |-> Debt(user)]

PositionBooks ==
  /\ DOMAIN positions \subseteq Users
  /\ positions \in [DOMAIN positions -> Position]
  /\ total_collateral \in Nat /\ total_debt \in Nat
  /\ total_collateral = SumFunction(CollateralMap)
  /\ total_debt = SumFunction(DebtMap)

YSCSPRBooks ==
  /\ y_balances \in [Holders -> Nat] /\ y_supply \in Nat
  /\ y_allowances \in [Holders \X Holders -> Nat]

CUSDBooks ==
  /\ c_balances \in [Users -> Nat] /\ c_supply \in Nat
  /\ c_supply = SumFunction(c_balances)

MarketBooks == price \in Prices /\ exchange_rate \in Rates

IInv == TypeOK /\ TotalsAreSums /\ CUSDIsDebt /\ CollateralHeld

LEMMA IInvParts ==
  IInv <=> /\ PositionBooks /\ YSCSPRBooks /\ CUSDBooks /\ MarketBooks
           /\ c_supply = total_debt /\ CollateralHeld
BY DEF IInv, TypeOK, TotalsAreSums, CUSDIsDebt, PositionBooks, YSCSPRBooks, CUSDBooks,
       MarketBooks, CollateralMap, DebtMap

LEMMA IInvPartsNext ==
  IInv' <=> /\ PositionBooks' /\ YSCSPRBooks' /\ CUSDBooks' /\ MarketBooks'
            /\ c_supply' = total_debt' /\ CollateralHeld'
BY DEF IInv, TypeOK, TotalsAreSums, CUSDIsDebt, PositionBooks, YSCSPRBooks, CUSDBooks,
       MarketBooks, CollateralMap, DebtMap

\* A step that leaves the variables of a part alone keeps the part.
LEMMA SamePositions == PositionBooks /\ UNCHANGED vaultVars => PositionBooks'
BY DEF PositionBooks, vaultVars, CollateralMap, DebtMap, Collateral, Debt

LEMMA SameYSCSPR == YSCSPRBooks /\ UNCHANGED yscsprVars => YSCSPRBooks'
BY DEF YSCSPRBooks, yscsprVars

LEMMA SameCUSD == CUSDBooks /\ UNCHANGED cusdVars => CUSDBooks'
BY DEF CUSDBooks, cusdVars

LEMMA SameMarket == MarketBooks /\ UNCHANGED marketVars => MarketBooks'
BY DEF MarketBooks, marketVars

LEMMA PositionTypes ==
  ASSUME PositionBooks, NEW user
  PROVE  /\ Collateral(user) \in Nat /\ Debt(user) \in Nat
         /\ user \in DOMAIN positions => user \in Users /\ positions[user].entry_price \in Nat
BY DEF PositionBooks, Position, Collateral, Debt

(***************************************************************************)
(* The parts of the steps.                                                 *)
(***************************************************************************)
\* A position is written and the others stay.
LEMMA PositionWritten ==
  ASSUME PositionBooks, NEW user \in Users, NEW collateral \in Nat, NEW debt \in Nat,
         NEW entry_price \in Nat, SetPosition(user, collateral, debt, entry_price)
  PROVE  /\ DOMAIN positions' \subseteq Users
         /\ positions' \in [DOMAIN positions' -> Position]
         /\ Collateral(user)' = collateral /\ Debt(user)' = debt
         /\ positions'[user].entry_price = entry_price
         /\ \A u \in Users : u # user =>
              Collateral(u)' = Collateral(u) /\ Debt(u)' = Debt(u)
         /\ \A u \in DOMAIN positions : u # user => positions'[u] = positions[u]
         /\ DOMAIN positions \subseteq DOMAIN positions'
<1> DEFINE new == [collateral |-> collateral, debt |-> debt, entry_price |-> entry_price]
<1>1. DOMAIN positions' = DOMAIN positions \cup {user}
  BY DEF SetPosition
<1>2. positions'[user] = new
  BY DEF SetPosition
<1>3. \A u \in DOMAIN positions : u # user => positions'[u] = positions[u]
  BY DEF SetPosition
<1>4. new \in Position
  BY DEF Position
<1>5. \A u \in DOMAIN positions' : positions'[u] \in Position
  BY <1>1, <1>2, <1>3, <1>4 DEF PositionBooks
<1>6. positions' \in [DOMAIN positions' -> Position]
  BY <1>1, <1>5 DEF SetPosition
<1>7. DOMAIN positions' \subseteq Users
  BY <1>1 DEF PositionBooks
<1>8. Collateral(user)' = collateral /\ Debt(user)' = debt
  BY <1>1, <1>2 DEF Collateral, Debt
<1>9. \A u \in Users : u # user => Collateral(u)' = Collateral(u) /\ Debt(u)' = Debt(u)
  BY <1>1, <1>3 DEF Collateral, Debt
<1> QED BY <1>1, <1>2, <1>3, <1>6, <1>7, <1>8, <1>9

LEMMA PositionChange ==
  ASSUME PositionBooks, NEW user \in Users, NEW collateral \in Nat, NEW debt \in Nat,
         NEW entry_price \in Nat, SetPosition(user, collateral, debt, entry_price),
         total_collateral' = total_collateral + (collateral - Collateral(user)),
         total_debt' = total_debt + (debt - Debt(user))
  PROVE  PositionBooks'
<1> DEFINE c == CollateralMap
           c2 == [u \in Users |-> Collateral(u)']
           d == DebtMap
           d2 == [u \in Users |-> Debt(u)']
           dc == collateral - Collateral(user)
           dd == debt - Debt(user)
<1>0. /\ DOMAIN positions' \subseteq Users /\ positions' \in [DOMAIN positions' -> Position]
      /\ Collateral(user)' = collateral /\ Debt(user)' = debt
      /\ \A u \in Users : u # user => Collateral(u)' = Collateral(u) /\ Debt(u)' = Debt(u)
  BY PositionWritten
<1>1. \A u \in Users : Collateral(u) \in Nat /\ Debt(u) \in Nat
  BY PositionTypes
<1>2. c \in [Users -> Nat] /\ d \in [Users -> Nat]
  BY <1>1 DEF CollateralMap, DebtMap
<1>3. c2 \in [Users -> Nat] /\ d2 \in [Users -> Nat]
  <2>1. \A u \in Users : Collateral(u)' \in Nat /\ Debt(u)' \in Nat
    BY <1>0, <1>1
  <2> QED BY <2>1
<1>4. dc \in Int /\ dd \in Int
  BY <1>1
<1>5. c2[user] = c[user] + dc /\ d2[user] = d[user] + dd
  BY <1>0, <1>1 DEF CollateralMap, DebtMap
<1>6. /\ \A u \in Users : u # user => c2[u] = c[u]
      /\ \A u \in Users : u # user => d2[u] = d[u]
  BY <1>0 DEF CollateralMap, DebtMap
<1>7. CollateralMap' = c2 /\ DebtMap' = d2
  BY DEF CollateralMap, DebtMap
<1>8. total_collateral' = total_collateral + dc /\ total_debt' = total_debt + dd
  OBVIOUS
<1>9. IsFiniteSet(Users) /\ user \in Users
  BY Finiteness
<1> HIDE DEF c, c2, d, d2, dc, dd
<1>10. SumFunction(c2) = SumFunction(c) + dc
  <2>1. c2[user] = c[user] + dc
    BY <1>5
  <2>2. \A u \in Users : u # user => c2[u] = c[u]
    BY <1>6
  <2> QED BY ONLY <1>2, <1>3, <1>4, <1>9, <2>1, <2>2, SumCredit
<1>11. SumFunction(d2) = SumFunction(d) + dd
  <2>1. d2[user] = d[user] + dd
    BY <1>5
  <2>2. \A u \in Users : u # user => d2[u] = d[u]
    BY <1>6
  <2> QED BY ONLY <1>2, <1>3, <1>4, <1>9, <2>1, <2>2, SumCredit
<1>12. SumFunction(c2) \in Nat /\ SumFunction(d2) \in Nat
  BY <1>3, <1>9, SumLedger
<1>13. total_collateral = SumFunction(c) /\ total_debt = SumFunction(d)
  BY DEF PositionBooks, c, d
<1> QED BY <1>0, <1>7, <1>8, <1>10, <1>11, <1>12, <1>13 DEF PositionBooks

\* cUSD is minted to, burnt from and moved between users.
LEMMA CUSDCredited ==
  ASSUME CUSDBooks, NEW user \in Users, NEW d \in Int, c_balances[user] + d \in Nat,
         c_balances' = [c_balances EXCEPT ![user] = @ + d], c_supply' = c_supply + d
  PROVE  CUSDBooks'
<1>1. c_balances \in [Users -> Nat] /\ c_balances' \in [Users -> Nat] /\ IsFiniteSet(Users)
  BY Finiteness DEF CUSDBooks
<1>2. c_balances'[user] = c_balances[user] + d
  BY <1>1
<1>3. \A x \in Users : x # user => c_balances'[x] = c_balances[x]
  BY <1>1
<1>4. user \in Users /\ d \in Int
  OBVIOUS
<1>5. SumFunction(c_balances') = SumFunction(c_balances) + d
  BY ONLY <1>1, <1>2, <1>3, <1>4, SumCredit
<1>6. SumFunction(c_balances') \in Nat
  BY <1>1, SumLedger
<1> QED BY <1>1, <1>5, <1>6 DEF CUSDBooks

LEMMA CUSDMinted ==
  ASSUME CUSDBooks, NEW user \in Users, NEW amount \in Nat, CUSD!Mint(Vault, user, amount)
  PROVE  CUSDBooks' /\ c_supply' = c_supply + amount
<1>1. c_balances' = [c_balances EXCEPT ![user] = @ + amount] /\ c_supply' = c_supply + amount
  BY DEF CUSD!Mint, CUSD!RawMint
<1>2. c_balances[user] + amount \in Nat /\ amount \in Int
  BY DEF CUSDBooks
<1> QED BY <1>1, <1>2, CUSDCredited

LEMMA CUSDBurned ==
  ASSUME CUSDBooks, NEW user \in Users, NEW amount \in Nat, CUSD!Burn(Vault, user, amount)
  PROVE  /\ CUSDBooks' /\ c_supply' = c_supply - amount
         /\ SumFunction(c_balances) - SumFunction(c_balances') = amount
<1> DEFINE d == 0 - amount
<1>1. c_balances \in [Users -> Nat] /\ c_supply \in Nat /\ d \in Int
  BY DEF CUSDBooks
<1>2. /\ amount <= c_balances[user]
      /\ c_balances' = [c_balances EXCEPT ![user] = @ - amount]
      /\ c_supply' = c_supply - amount
  BY DEF CUSD!Burn, CUSD!RawBurn
<1>3. c_balances' = [c_balances EXCEPT ![user] = @ + d] /\ c_supply' = c_supply + d
  <2>1. c_balances[user] - amount = c_balances[user] + d /\ c_supply - amount = c_supply + d
    BY <1>1
  <2> QED BY <1>2, <2>1
<1>4. c_balances[user] + d \in Nat
  BY <1>1, <1>2
<1>5. CUSDBooks'
  <2> HIDE DEF d
  <2> QED BY <1>1, <1>3, <1>4, CUSDCredited
<1>6. SumFunction(c_balances) = c_supply /\ SumFunction(c_balances') = c_supply'
  BY <1>5 DEF CUSDBooks
<1> QED BY <1>1, <1>2, <1>5, <1>6

LEMMA CUSDMoved ==
  ASSUME CUSDBooks, NEW from \in Users, NEW to \in Users, NEW amount \in Nat,
         CUSD!Transfer(from, to, amount)
  PROVE  CUSDBooks' /\ c_supply' = c_supply
<1>1. /\ from # to /\ amount <= c_balances[from] /\ c_supply' = c_supply
      /\ c_balances' = [c_balances EXCEPT ![from] = @ - amount, ![to] = @ + amount]
  BY DEF CUSD!Transfer, CUSD!RawTransfer
<1>2. c_balances \in [Users -> Nat] /\ c_balances' \in [Users -> Nat] /\ IsFiniteSet(Users)
  BY <1>1, Finiteness DEF CUSDBooks
<1>3. c_balances'[from] = c_balances[from] - amount
  BY <1>1, <1>2
<1>4. c_balances'[to] = c_balances[to] + amount
  BY <1>1, <1>2
<1>5. \A x \in Users : x # from /\ x # to => c_balances'[x] = c_balances[x]
  BY <1>1, <1>2
<1>6. from \in Users /\ to \in Users /\ from # to /\ amount \in Nat
  BY <1>1
<1>7. SumFunction(c_balances') = SumFunction(c_balances)
  BY ONLY <1>2, <1>3, <1>4, <1>5, <1>6, SumMove
<1> QED BY <1>1, <1>2, <1>7 DEF CUSDBooks

\* ySCSPR moves between holders.
LEMMA YSCSPRMoved ==
  ASSUME YSCSPRBooks, NEW from \in Holders, NEW to \in Holders, NEW amount \in Nat,
         from # to, amount <= y_balances[from],
         y_balances' = [y_balances EXCEPT ![from] = @ - amount, ![to] = @ + amount],
         y_supply' = y_supply, y_allowances' \in [Holders \X Holders -> Nat]
  PROVE  /\ YSCSPRBooks'
         /\ y_balances'[from] = y_balances[from] - amount
         /\ y_balances'[to] = y_balances[to] + amount
         /\ \A h \in Holders : h # from /\ h # to => y_balances'[h] = y_balances[h]
<1>1. y_balances \in [Holders -> Nat]
  BY DEF YSCSPRBooks
<1>2. /\ y_balances'[from] = y_balances[from] - amount
      /\ y_balances'[to] = y_balances[to] + amount
      /\ \A h \in Holders : h # from /\ h # to => y_balances'[h] = y_balances[h]
  BY <1>1
<1>3. y_balances' \in [Holders -> Nat]
  BY <1>1
<1> QED BY <1>2, <1>3 DEF YSCSPRBooks

LEMMA YSCSPRTransferred ==
  ASSUME YSCSPRBooks, NEW from \in Holders, NEW to \in Holders, NEW amount \in Nat,
         YSCSPR!Transfer(from, to, amount)
  PROVE  /\ YSCSPRBooks' /\ from # to
         /\ y_balances'[from] = y_balances[from] - amount
         /\ y_balances'[to] = y_balances[to] + amount
         /\ \A h \in Holders : h # from /\ h # to => y_balances'[h] = y_balances[h]
<1>1. /\ from # to /\ amount <= y_balances[from] /\ y_supply' = y_supply
      /\ y_balances' = [y_balances EXCEPT ![from] = @ - amount, ![to] = @ + amount]
      /\ y_allowances' = y_allowances
  BY DEF YSCSPR!Transfer, YSCSPR!RawTransfer
<1>2. y_allowances' \in [Holders \X Holders -> Nat]
  BY <1>1 DEF YSCSPRBooks
<1> QED BY <1>1, <1>2, YSCSPRMoved

LEMMA CollateralToUsdNat ==
  ASSUME MarketBooks, NEW amount \in Nat
  PROVE  CollateralToUsd(amount) \in Nat
<1>1. price \in Nat /\ exchange_rate \in Nat /\ MOTES_PER_CSPR \in Nat \ {0}
  BY VaultAssumption DEF MarketBooks
<1>2. amount * exchange_rate \in Nat
  BY <1>1
<1>3. (amount * exchange_rate) \div MOTES_PER_CSPR \in Nat
  BY <1>1, <1>2, DivNat
<1> DEFINE q == (amount * exchange_rate) \div MOTES_PER_CSPR
<1>4. q * price \in Nat
  <2> HIDE DEF q
  <2>1. q \in Nat
    BY <1>3 DEF q
  <2> QED BY <1>1, <2>1
<1>5. (q * price) \div MOTES_PER_CSPR \in Nat
  BY <1>1, <1>4, DivNat
<1> QED BY <1>5 DEF CollateralToUsd

\* What a liquidation takes.
LEMMA LiquidationAmountNat ==
  ASSUME MarketBooks, NEW debt_cover \in Nat
  PROVE  CalculateLiquidationAmount(debt_cover) \in Nat
<1> DEFINE usd == (debt_cover * (BASIS_POINTS + DEFAULT_LIQ_PENALTY)) \div BASIS_POINTS
           cspr == CheckedDiv(usd * MOTES_PER_CSPR, price)
<1>1. /\ price \in Nat /\ exchange_rate \in Nat /\ MOTES_PER_CSPR \in Nat
      /\ BASIS_POINTS \in Nat \ {0} /\ DEFAULT_LIQ_PENALTY \in Nat
  BY VaultAssumption DEF MarketBooks
<1>2. debt_cover * (BASIS_POINTS + DEFAULT_LIQ_PENALTY) \in Nat
  BY <1>1
<1>3. usd \in Nat
  BY <1>1, <1>2, DivNat
<1>4. usd * MOTES_PER_CSPR \in Nat
  <2> HIDE DEF usd
  <2> QED BY <1>1, <1>3
<1>5. cspr \in Nat
  BY <1>1, <1>4, CheckedDivNat
<1>6. cspr * MOTES_PER_CSPR \in Nat
  <2> HIDE DEF cspr
  <2> QED BY <1>1, <1>5
<1>7. CheckedDiv(cspr * MOTES_PER_CSPR, exchange_rate) \in Nat
  BY <1>1, <1>6, CheckedDivNat
<1> QED BY <1>7 DEF CalculateLiquidationAmount

(***************************************************************************)
(* The roundings.                                                          *)
(***************************************************************************)
LEMMA DivAtLeast ==
  ASSUME NEW a \in Nat, NEW b \in Nat \ {0}, NEW q \in Nat
  PROVE  a \div b >= q <=> a >= q * b
<1> DEFINE d == a \div b
<1>1. d \in Nat /\ d * b <= a /\ a < d * b + b
  OBVIOUS
<1> HIDE DEF d
<1>2. d >= q => d * b >= q * b
  BY <1>1
<1>3. ~(d >= q) => d + 1 <= q
  BY <1>1
<1>4. d + 1 <= q => (d + 1) * b <= q * b
  BY <1>1
<1>5. (d + 1) * b = d * b + b
  BY <1>1
<1>6. d * b \in Nat /\ q * b \in Nat
  BY <1>1
<1>7. d >= q <=> a >= q * b
  BY <1>1, <1>2, <1>3, <1>4, <1>5, <1>6
<1> QED BY <1>7 DEF d

LEMMA DivAtMost ==
  ASSUME NEW a \in Nat, NEW b \in Nat \ {0}, NEW q \in Nat, a <= q * b
  PROVE  a \div b <= q
<1> DEFINE d == a \div b
<1>1. d \in Nat /\ d * b <= a
  BY DivNat
<1> HIDE DEF d
<1>2. ~(d <= q) => q + 1 <= d
  BY <1>1
<1>3. q + 1 <= d => (q + 1) * b <= d * b
  BY <1>1
<1>4. (q + 1) * b = q * b + b
  OBVIOUS
<1>5. d * b \in Nat /\ q * b \in Nat
  BY <1>1
<1>6. d <= q
  BY <1>1, <1>2, <1>3, <1>4, <1>5
<1> QED BY <1>6 DEF d

\* More collateral is worth no less.
LEMMA UsdMonotone ==
  ASSUME MarketBooks, NEW a \in Nat, NEW b \in Nat, a <= b
  PROVE  CollateralToUsd(a) <= CollateralToUsd(b)
<1> DEFINE cspr(x) == (x * exchange_rate) \div MOTES_PER_CSPR
<1>1. price \in Nat /\ exchange_rate \in Nat /\ MOTES_PER_CSPR \in Nat \ {0}
  BY VaultAssumption DEF MarketBooks
<1>2. a * exchange_rate \in Nat /\ b * exchange_rate \in Nat
      /\ a * exchange_rate <= b * exchange_rate
  BY <1>1
<1>3. cspr(a) \in Nat /\ cspr(b) \in Nat /\ cspr(a) * MOTES_PER_CSPR <= a * exchange_rate
  BY <1>1, <1>2, DivNat
<1>4. cspr(b) >= cspr(a)
  <2>1. b * exchange_rate >= cspr(a) * MOTES_PER_CSPR
    <3> HIDE DEF cspr
    <3>1. cspr(a) * MOTES_PER_CSPR \in Nat
      BY <1>1, <1>3
    <3> QED BY <1>2, <1>3, <3>1
  <2> QED BY <1>1, <1>2, <1>3, <2>1, DivAtLeast
<1> HIDE DEF cspr
<1>5. cspr(a) * price \in Nat /\ cspr(b) * price \in Nat /\ cspr(a) * price <= cspr(b) * price
  BY <1>1, <1>3, <1>4
<1> DEFINE usd(x) == (cspr(x) * price) \div MOTES_PER_CSPR
<1>6. usd(a) \in Nat /\ usd(a) * MOTES_PER_CSPR <= cspr(a) * price
  BY <1>1, <1>5, DivNat
<1>7. cspr(b) * price >= usd(a) * MOTES_PER_CSPR
  <2> HIDE DEF usd
  <2>1. usd(a) * MOTES_PER_CSPR \in Nat
    BY <1>1, <1>6
  <2> QED BY <1>5, <1>6, <2>1
<1>8. usd(b) >= usd(a)
  BY <1>1, <1>5, <1>6, <1>7, DivAtLeast
<1>9. usd(b) \in Nat
  BY <1>1, <1>5, DivNat
<1>10. usd(a) <= usd(b)
  <2> HIDE DEF usd
  <2> QED BY <1>6, <1>8, <1>9
<1> QED BY <1>10 DEF CollateralToUsd, cspr

\* A position is healthy when its collateral, at the threshold, covers its
\* debt: the rounding of the health factor decides no case.
LEMMA HealthyMeans ==
  ASSUME MarketBooks, NEW collateral \in Nat, NEW debt \in Nat
  PROVE  Healthy(collateral, debt) <=>
           debt = 0 \/ CollateralToUsd(collateral) * DEFAULT_LIQ_THRESHOLD >= debt * BASIS_POINTS
<1> DEFINE usd == CollateralToUsd(collateral)
           x == usd * DEFAULT_LIQ_THRESHOLD
           y == debt * BASIS_POINTS
<1>1. usd \in Nat /\ BASIS_POINTS \in Nat \ {0} /\ DEFAULT_LIQ_THRESHOLD \in Nat
  BY CollateralToUsdNat, VaultAssumption
<1> HIDE DEF usd
<1>2. x \in Nat /\ y \in Nat
  BY <1>1
<1>3. debt # 0 => y # 0
  BY <1>1
<1> HIDE DEF x, y
<1>4. x * BASIS_POINTS \in Nat
  BY <1>1, <1>2
<1>5. ASSUME debt # 0
      PROVE  (x * BASIS_POINTS) \div y >= BASIS_POINTS <=> x * BASIS_POINTS >= BASIS_POINTS * y
  <2>1. y \in Nat \ {0}
    BY <1>2, <1>3, <1>5
  <2> QED BY <1>1, <1>4, <2>1, DivAtLeast
<1>6. x * BASIS_POINTS >= BASIS_POINTS * y <=> x >= y
  BY <1>1, <1>2
<1>7. debt # 0 =>
        (CalculateHealthFactor(collateral, debt) >= BASIS_POINTS <=> x >= y)
  BY <1>5, <1>6 DEF CalculateHealthFactor, x, y, usd
<1> QED BY <1>7 DEF Healthy, x, y, usd

\* What a liquidation takes is worth at most the debt covered and the penalty.
LEMMA SeizureWorth ==
  ASSUME MarketBooks, NEW debt_cover \in Nat
  PROVE  CollateralToUsd(CalculateLiquidationAmount(debt_cover)) * BASIS_POINTS
           <= debt_cover * (BASIS_POINTS + DEFAULT_LIQ_PENALTY)
<1> DEFINE owed == debt_cover * (BASIS_POINTS + DEFAULT_LIQ_PENALTY)
           usd == owed \div BASIS_POINTS
           cspr == CheckedDiv(usd * MOTES_PER_CSPR, price)
           seized == CheckedDiv(cspr * MOTES_PER_CSPR, exchange_rate)
           back == (seized * exchange_rate) \div MOTES_PER_CSPR
           worth == (back * price) \div MOTES_PER_CSPR
<1>1. /\ price \in Nat /\ exchange_rate \in Nat /\ MOTES_PER_CSPR \in Nat \ {0}
      /\ BASIS_POINTS \in Nat \ {0} /\ DEFAULT_LIQ_PENALTY \in Nat
  BY VaultAssumption DEF MarketBooks
<1>2. owed \in Nat
  BY <1>1
<1> HIDE DEF owed
<1>3. usd \in Nat /\ usd * BASIS_POINTS <= owed
  BY <1>1, <1>2, DivNat
<1> HIDE DEF usd
<1>4. usd * MOTES_PER_CSPR \in Nat
  BY <1>1, <1>3
<1>5. cspr \in Nat /\ cspr * price <= usd * MOTES_PER_CSPR
  BY <1>1, <1>4, CheckedDivNat
<1> HIDE DEF cspr
<1>6. cspr * MOTES_PER_CSPR \in Nat
  BY <1>1, <1>5
<1>7. seized \in Nat /\ seized * exchange_rate <= cspr * MOTES_PER_CSPR
  BY <1>1, <1>6, CheckedDivNat
<1> HIDE DEF seized
<1>8. seized * exchange_rate \in Nat
  BY <1>1, <1>7
<1>9. back \in Nat /\ back <= cspr
  BY <1>1, <1>5, <1>7, <1>8, DivNat, DivAtMost
<1> HIDE DEF back
<1>10. back * price \in Nat /\ back * price <= cspr * price /\ cspr * price \in Nat
  BY <1>1, <1>5, <1>9
<1>11. back * price <= usd * MOTES_PER_CSPR
  BY <1>4, <1>5, <1>10
<1>12. worth \in Nat /\ worth <= usd
  BY <1>1, <1>3, <1>10, <1>11, DivNat, DivAtMost
<1> HIDE DEF worth
<1>13. worth * BASIS_POINTS <= usd * BASIS_POINTS /\ worth * BASIS_POINTS \in Nat
       /\ usd * BASIS_POINTS \in Nat
  BY <1>1, <1>3, <1>12
<1>14. worth * BASIS_POINTS <= owed
  BY <1>2, <1>3, <1>13
<1>15. worth = CollateralToUsd(CalculateLiquidationAmount(debt_cover))
  BY DEF worth, back, seized, cspr, usd, owed, CollateralToUsd, CalculateLiquidationAmount
<1> QED BY <1>14, <1>15 DEF owed

\* An average lies between what it is of.
LEMMA AverageBetween ==
  ASSUME NEW p \in Nat, NEW c \in Nat, NEW q \in Nat, NEW a \in Nat, a # 0
  PROVE  CalculateWeightedPrice(p, c, q, a) \in (p..q) \cup (q..p)
<1> DEFINE n == c + a
           s == p * c + q * a
           w == s \div n
<1>1. n \in Nat \ {0} /\ s \in Nat
  OBVIOUS
<1>2. w \in Nat
  BY <1>1, DivNat
<1>3. CASE p <= q
  <2>1. p * n <= s /\ s <= q * n
    <3>1. p * a <= q * a /\ p * c <= q * c
      BY <1>3
    <3>2. p * n = p * c + p * a /\ q * n = q * c + q * a
      OBVIOUS
    <3> QED BY <3>1, <3>2
  <2>2. w >= p /\ w <= q
    <3> HIDE DEF n, s
    <3> QED BY <1>1, <2>1, DivAtLeast, DivAtMost
  <2>3. w \in p..q
    <3> HIDE DEF w
    <3> QED BY <1>2, <2>2
  <2> QED BY <2>3 DEF CalculateWeightedPrice
<1>4. CASE q <= p
  <2>1. q * n <= s /\ s <= p * n
    <3>1. q * a <= p * a /\ q * c <= p * c
      BY <1>4
    <3>2. p * n = p * c + p * a /\ q * n = q * c + q * a
      OBVIOUS
    <3> QED BY <3>1, <3>2
  <2>2. w >= q /\ w <= p
    <3> HIDE DEF n, s
    <3> QED BY <1>1, <2>1, DivAtLeast, DivAtMost
  <2>3. w \in q..p
    <3> HIDE DEF w
    <3> QED BY <1>2, <2>2
  <2> QED BY <2>3 DEF CalculateWeightedPrice
<1> QED BY <1>3, <1>4

(***************************************************************************)
(* Init and the steps.                                                     *)
(***************************************************************************)
LEMMA VaultInit == Init => IInv
<1> SUFFICES ASSUME Init PROVE IInv
  OBVIOUS
<1>1. IsFiniteSet(Users) /\ Vault \in Holders
  BY Finiteness DEF Holders
<1>2. \A user \in Users : Collateral(user) = 0 /\ Debt(user) = 0
  BY DEF Init, Collateral, Debt
<1>3. SumFunction(CollateralMap) = 0 /\ SumFunction(DebtMap) = 0
  <2>1. DOMAIN CollateralMap = Users /\ \A u \in Users : CollateralMap[u] = 0
    BY <1>2 DEF CollateralMap
  <2>2. DOMAIN DebtMap = Users /\ \A u \in Users : DebtMap[u] = 0
    BY <1>2 DEF DebtMap
  <2> QED BY <1>1, <2>1, <2>2, SumOnZero DEF SumFunction
<1>4. PositionBooks
  <2>1. positions = [user \in {} |-> 0] /\ total_collateral = 0 /\ total_debt = 0
    BY DEF Init
  <2> QED BY <1>3, <2>1 DEF PositionBooks
<1>5. SumFunction(c_balances) = 0
  <2>1. DOMAIN c_balances = Users /\ \A u \in Users : c_balances[u] = 0
    BY DEF Init
  <2> QED BY <1>1, <2>1, SumOnZero DEF SumFunction
<1>6. CUSDBooks
  BY <1>5 DEF Init, CUSDBooks
<1>7. YSCSPRBooks
  <2>1. Cardinality(Users) \in Nat /\ Endowment \in Nat
    BY <1>1, FS_CardinalityType, VaultAssumption
  <2>2. Endowment * Cardinality(Users) \in Nat
    BY <2>1
  <2> QED BY <2>1, <2>2 DEF Init, YSCSPRBooks
<1>8. MarketBooks
  BY DEF Init, MarketBooks
<1>9. c_supply = total_debt /\ CollateralHeld
  BY <1>1 DEF Init, CollateralHeld
<1> QED BY <1>4, <1>6, <1>7, <1>8, <1>9, IInvParts

\* A deposit's part in the token, and the new entry price.
LEMMA DepositFacts ==
  ASSUME IInv, NEW user \in Users, NEW amount \in YSCSPRAmounts, Deposit(user, amount)
  PROVE  /\ amount \in Nat /\ amount # 0
         /\ user \in Holders /\ Vault \in Holders /\ user # Vault
         /\ amount <= y_balances[user]
         /\ y_balances' = [y_balances EXCEPT ![user] = @ - amount, ![Vault] = @ + amount]
         /\ y_allowances' \in [Holders \X Holders -> Nat]
         /\ y_supply' = y_supply
         /\ \E entry_price \in Nat :
              /\ SetPosition(user, Collateral(user) + amount, Debt(user), entry_price)
              /\ Collateral(user) # 0 =>
                   entry_price \in (positions[user].entry_price..price) \cup
                                  (price..positions[user].entry_price)
<1>1. amount \in Nat /\ amount # 0
  BY VaultAssumption DEF Deposit
<1>2. user \in Holders /\ Vault \in Holders /\ user # Vault
  BY Finiteness DEF Holders
<1>3. /\ amount <= y_balances[user]
      /\ y_balances' = [y_balances EXCEPT ![user] = @ - amount, ![Vault] = @ + amount]
      /\ amount <= y_allowances[<<user, Vault>>]
      /\ y_allowances' = [y_allowances EXCEPT ![<<user, Vault>>] = @ - amount]
  BY <1>1 DEF Deposit, YSCSPR!TransferFrom, YSCSPR!RawTransfer
<1>4. y_allowances' \in [Holders \X Holders -> Nat]
  BY <1>1, <1>2, <1>3, IInvParts DEF YSCSPRBooks
<1>5. y_supply' = y_supply
  BY DEF Deposit
<1> DEFINE old == positions[user].entry_price
           entry_price == IF Collateral(user) = 0 THEN price
                          ELSE CalculateWeightedPrice(old, Collateral(user), price, amount)
<1>6. SetPosition(user, Collateral(user) + amount, Debt(user), entry_price)
  BY DEF Deposit
<1>7. /\ entry_price \in Nat
      /\ Collateral(user) # 0 => entry_price \in (old..price) \cup (price..old)
  <2>1. price \in Nat /\ Collateral(user) \in Nat
    BY IInvParts, VaultAssumption, PositionTypes DEF MarketBooks
  <2>2. CASE Collateral(user) = 0
    BY <2>1, <2>2
  <2>3. CASE Collateral(user) # 0
    <3>1. old \in Nat
      BY <2>3, IInvParts, PositionTypes DEF Collateral
    <3>2. old * Collateral(user) + price * amount \in Nat
      <4> HIDE DEF old
      <4> QED BY <1>1, <2>1, <3>1
    <3>3. Collateral(user) + amount \in Nat \ {0}
      BY <1>1, <2>1
    <3>4. CalculateWeightedPrice(old, Collateral(user), price, amount) \in Nat
      BY <3>2, <3>3, DivNat DEF CalculateWeightedPrice
    <3>5. CalculateWeightedPrice(old, Collateral(user), price, amount)
            \in (old..price) \cup (price..old)
      <4> HIDE DEF old
      <4> QED BY <1>1, <2>1, <3>1, AverageBetween
    <3> QED BY <2>3, <3>4, <3>5
  <2> QED BY <2>2, <2>3
<1> QED BY <1>1, <1>2, <1>3, <1>4, <1>5, <1>6, <1>7

LEMMA DepositStep ==
  ASSUME IInv, NEW user \in Users, NEW amount \in YSCSPRAmounts, Deposit(user, amount)
  PROVE  IInv'
<1>1. PICK entry_price \in Nat :
        SetPosition(user, Collateral(user) + amount, Debt(user), entry_price)
  BY DepositFacts
<1>2. PositionBooks /\ YSCSPRBooks /\ CUSDBooks /\ MarketBooks
      /\ c_supply = total_debt /\ CollateralHeld
  BY IInvParts
<1>3. amount \in Nat /\ Collateral(user) \in Nat /\ Debt(user) \in Nat
  BY <1>2, DepositFacts, PositionTypes
<1>4. total_collateral' = total_collateral + amount /\ total_debt' = total_debt
      /\ total_collateral \in Nat /\ total_debt \in Nat
  BY <1>2 DEF Deposit, PositionBooks
<1>5. PositionBooks'
  <2>1. /\ total_collateral' = total_collateral + ((Collateral(user) + amount) - Collateral(user))
        /\ total_debt' = total_debt + (Debt(user) - Debt(user))
        /\ Collateral(user) + amount \in Nat
    BY <1>3, <1>4
  <2> QED BY <1>1, <1>2, <1>3, <2>1, PositionChange
<1>6. YSCSPRBooks' /\ y_balances'[Vault] = y_balances[Vault] + amount
  <2>1. /\ user \in Holders /\ Vault \in Holders /\ user # Vault
        /\ amount <= y_balances[user]
        /\ y_balances' = [y_balances EXCEPT ![user] = @ - amount, ![Vault] = @ + amount]
        /\ y_supply' = y_supply /\ y_allowances' \in [Holders \X Holders -> Nat]
    BY DepositFacts
  <2> QED BY ONLY <1>2, <1>3, <2>1, YSCSPRMoved
<1>7. CUSDBooks' /\ MarketBooks' /\ c_supply' = c_supply
  BY <1>2, SameCUSD, SameMarket DEF Deposit, cusdVars
<1>8. CollateralHeld'
  <2>1. y_balances[Vault] \in Nat
    BY <1>2, DepositFacts DEF YSCSPRBooks
  <2> QED BY <1>2, <1>3, <1>4, <1>6, <2>1 DEF CollateralHeld
<1> QED BY <1>2, <1>4, <1>5, <1>6, <1>7, <1>8, IInvPartsNext

LEMMA BorrowStep ==
  ASSUME IInv, NEW user \in Users, NEW amount \in CUSDAmounts, Borrow(user, amount)
  PROVE  IInv'
<1>1. PositionBooks /\ YSCSPRBooks /\ CUSDBooks /\ MarketBooks
      /\ c_supply = total_debt /\ CollateralHeld
  BY IInvParts
<1>2. /\ amount \in Nat /\ Collateral(user) \in Nat /\ Debt(user) \in Nat
      /\ positions[user].entry_price \in Nat
      /\ total_collateral \in Nat /\ total_debt \in Nat
  BY <1>1, VaultAssumption, PositionTypes DEF Borrow, PositionBooks
<1>3. total_collateral' = total_collateral /\ total_debt' = total_debt + amount
  BY DEF Borrow
<1>4. PositionBooks'
  <2>1. /\ total_collateral' = total_collateral + (Collateral(user) - Collateral(user))
        /\ total_debt' = total_debt + ((Debt(user) + amount) - Debt(user))
        /\ Debt(user) + amount \in Nat
    BY <1>2, <1>3
  <2>2. SetPosition(user, Collateral(user), Debt(user) + amount, positions[user].entry_price)
    BY DEF Borrow
  <2> QED BY <1>1, <1>2, <2>1, <2>2, PositionChange
<1>5. CUSDBooks' /\ c_supply' = c_supply + amount
  BY <1>1, <1>2, CUSDMinted DEF Borrow
<1>6. YSCSPRBooks' /\ MarketBooks' /\ CollateralHeld'
  BY <1>1, <1>3, SameYSCSPR, SameMarket DEF Borrow, CollateralHeld, yscsprVars
<1> QED BY <1>1, <1>3, <1>4, <1>5, <1>6, IInvPartsNext

LEMMA RepayStep ==
  ASSUME IInv, NEW user \in Users, NEW amount \in CUSDAmounts, Repay(user, amount)
  PROVE  IInv'
<1>1. PositionBooks /\ YSCSPRBooks /\ CUSDBooks /\ MarketBooks
      /\ c_supply = total_debt /\ CollateralHeld
  BY IInvParts
<1>2. /\ amount \in Nat /\ Collateral(user) \in Nat /\ Debt(user) \in Nat
      /\ positions[user].entry_price \in Nat
      /\ total_collateral \in Nat /\ total_debt \in Nat
  BY <1>1, VaultAssumption, PositionTypes DEF Repay, PositionBooks
<1>3. /\ total_collateral' = total_collateral /\ total_debt' = total_debt - amount
      /\ amount <= Debt(user)
  BY DEF Repay
<1>4. PositionBooks'
  <2>1. /\ total_collateral' = total_collateral + (Collateral(user) - Collateral(user))
        /\ total_debt' = total_debt + ((Debt(user) - amount) - Debt(user))
        /\ Debt(user) - amount \in Nat
    BY <1>2, <1>3
  <2>2. SetPosition(user, Collateral(user), Debt(user) - amount, positions[user].entry_price)
    BY DEF Repay
  <2> QED BY <1>1, <1>2, <2>1, <2>2, PositionChange
<1>5. CUSDBooks' /\ c_supply' = c_supply - amount
  BY <1>1, <1>2, CUSDBurned DEF Repay
<1>6. YSCSPRBooks' /\ MarketBooks' /\ CollateralHeld'
  BY <1>1, <1>3, SameYSCSPR, SameMarket DEF Repay, CollateralHeld, yscsprVars
<1> QED BY <1>1, <1>3, <1>4, <1>5, <1>6, IInvPartsNext

LEMMA WithdrawStep ==
  ASSUME IInv, NEW user \in Users, NEW amount \in YSCSPRAmounts, Withdraw(user, amount)
  PROVE  IInv'
<1>1. PositionBooks /\ YSCSPRBooks /\ CUSDBooks /\ MarketBooks
      /\ c_supply = total_debt /\ CollateralHeld
  BY IInvParts
<1>2. /\ amount \in Nat /\ Collateral(user) \in Nat /\ Debt(user) \in Nat
      /\ positions[user].entry_price \in Nat
      /\ total_collateral \in Nat /\ total_debt \in Nat
  BY <1>1, VaultAssumption, PositionTypes DEF Withdraw, PositionBooks
<1>3. /\ total_collateral' = total_collateral - amount /\ total_debt' = total_debt
      /\ amount <= Collateral(user)
  BY DEF Withdraw
<1>4. PositionBooks'
  <2>1. /\ total_collateral' = total_collateral + ((Collateral(user) - amount) - Collateral(user))
        /\ total_debt' = total_debt + (Debt(user) - Debt(user))
        /\ Collateral(user) - amount \in Nat
    BY <1>2, <1>3
  <2>2. SetPosition(user, Collateral(user) - amount, Debt(user), positions[user].entry_price)
    BY DEF Withdraw
  <2> QED BY <1>1, <1>2, <2>1, <2>2, PositionChange
<1>5. YSCSPRBooks' /\ y_balances'[Vault] = y_balances[Vault] - amount
  <2>1. user \in Holders /\ Vault \in Holders
    BY DEF Holders
  <2> QED BY <1>1, <1>2, <2>1, YSCSPRTransferred DEF Withdraw
<1>6. CUSDBooks' /\ MarketBooks' /\ c_supply' = c_supply
  BY <1>1, SameCUSD, SameMarket DEF Withdraw, cusdVars
<1>7. CollateralHeld'
  <2>1. y_balances[Vault] \in Nat
    BY <1>1 DEF YSCSPRBooks, Holders
  <2> QED BY <1>1, <1>2, <1>3, <1>5, <2>1 DEF CollateralHeld
<1> QED BY <1>1, <1>3, <1>4, <1>5, <1>6, <1>7, IInvPartsNext

LEMMA LiquidateStep ==
  ASSUME IInv, NEW user \in Users, NEW liquidator \in Users, NEW amount \in CUSDAmounts,
         Liquidate(liquidator, user, amount)
  PROVE  IInv'
<1> DEFINE seized == CalculateLiquidationAmount(amount)
<1>1. PositionBooks /\ YSCSPRBooks /\ CUSDBooks /\ MarketBooks
      /\ c_supply = total_debt /\ CollateralHeld
  BY IInvParts
<1>2. amount \in Nat /\ seized \in Nat
  BY <1>1, VaultAssumption, LiquidationAmountNat
<1>3. /\ user \in DOMAIN positions
      /\ amount <= Debt(user) /\ seized <= Collateral(user)
      /\ CUSD!Burn(Vault, liquidator, amount)
      /\ SetPosition(user, Collateral(user) - seized, Debt(user) - amount,
                     positions[user].entry_price)
      /\ total_collateral' = total_collateral - seized
      /\ total_debt' = total_debt - amount
      /\ YSCSPR!Transfer(Vault, liquidator, seized)
      /\ UNCHANGED marketVars
  BY DEF Liquidate, IsLiquidatable
<1> HIDE DEF seized
<1>4. /\ Collateral(user) \in Nat /\ Debt(user) \in Nat /\ positions[user].entry_price \in Nat
      /\ total_collateral \in Nat /\ total_debt \in Nat
  BY <1>1, <1>3, PositionTypes DEF PositionBooks
<1>5. PositionBooks'
  <2>1. /\ total_collateral' = total_collateral + ((Collateral(user) - seized) - Collateral(user))
        /\ total_debt' = total_debt + ((Debt(user) - amount) - Debt(user))
        /\ Collateral(user) - seized \in Nat /\ Debt(user) - amount \in Nat
    BY <1>2, <1>3, <1>4
  <2> QED BY <1>1, <1>3, <1>4, <2>1, PositionChange
<1>6. YSCSPRBooks' /\ y_balances'[Vault] = y_balances[Vault] - seized
  <2>1. liquidator \in Holders /\ Vault \in Holders
    BY DEF Holders
  <2> QED BY <1>1, <1>2, <1>3, <2>1, YSCSPRTransferred
<1>7. CUSDBooks' /\ c_supply' = c_supply - amount
  BY <1>1, <1>2, <1>3, CUSDBurned
<1>8. MarketBooks'
  BY <1>1, <1>3, SameMarket
<1>9. CollateralHeld'
  <2>1. y_balances[Vault] \in Nat
    BY <1>1 DEF YSCSPRBooks, Holders
  <2> QED BY <1>1, <1>2, <1>3, <1>4, <1>6, <2>1 DEF CollateralHeld
<1> QED BY <1>1, <1>3, <1>5, <1>6, <1>7, <1>8, <1>9, IInvPartsNext

\* What holders do outside the vault, and the market.
LEMMA HolderStep ==
  ASSUME IInv, HolderNext
  PROVE  IInv'
<1>1. PositionBooks /\ YSCSPRBooks /\ CUSDBooks /\ MarketBooks
      /\ c_supply = total_debt /\ CollateralHeld
  BY IInvParts
<1>2. PICK user \in Users :
        \/ \E amount \in YSCSPRAmounts : ApproveVault(user, amount)
        \/ \E amount \in YSCSPRAmounts, to \in Holders : TransferYSCSPR(user, to, amount)
        \/ \E amount \in CUSDAmounts, to \in Users : TransferCUSD(user, to, amount)
  BY DEF HolderNext
<1>3. user \in Holders /\ Vault \in Holders /\ user # Vault
  BY Finiteness DEF Holders
<1>4. CASE \E amount \in YSCSPRAmounts : ApproveVault(user, amount)
  <2>1. PICK amount \in YSCSPRAmounts : ApproveVault(user, amount)
    BY <1>4
  <2>2. /\ y_allowances' = [y_allowances EXCEPT ![<<user, Vault>>] = amount]
        /\ UNCHANGED <<y_balances, y_supply, vaultVars, cusdVars, marketVars>>
    BY <2>1 DEF ApproveVault, YSCSPR!Approve, YSCSPR!RawApprove
  <2>3. amount \in Nat
    BY VaultAssumption
  <2>4. y_allowances' \in [Holders \X Holders -> Nat]
    BY <1>1, <2>2, <2>3 DEF YSCSPRBooks
  <2>5. YSCSPRBooks'
    BY <1>1, <2>2, <2>4 DEF YSCSPRBooks
  <2>6. PositionBooks' /\ CUSDBooks' /\ MarketBooks'
    BY <1>1, <2>2, SamePositions, SameCUSD, SameMarket
  <2>7. c_supply' = total_debt' /\ CollateralHeld'
    BY <1>1, <2>2 DEF CollateralHeld, vaultVars, cusdVars
  <2> QED BY <2>5, <2>6, <2>7, IInvPartsNext
<1>5. CASE \E amount \in YSCSPRAmounts, to \in Holders : TransferYSCSPR(user, to, amount)
  <2>1. PICK amount \in YSCSPRAmounts, to \in Holders : TransferYSCSPR(user, to, amount)
    BY <1>5
  <2>2. YSCSPR!Transfer(user, to, amount) /\ UNCHANGED <<vaultVars, cusdVars, marketVars>>
    BY <2>1 DEF TransferYSCSPR
  <2>3. amount \in Nat
    BY VaultAssumption
  <2>4. /\ YSCSPRBooks'
        /\ y_balances'[to] = y_balances[to] + amount
        /\ \A h \in Holders : h # user /\ h # to => y_balances'[h] = y_balances[h]
    BY <1>1, <1>3, <2>2, <2>3, YSCSPRTransferred
  <2>5. PositionBooks' /\ CUSDBooks' /\ MarketBooks'
    BY <1>1, <2>2, SamePositions, SameCUSD, SameMarket
  <2>6. y_balances[Vault] \in Nat /\ total_collateral \in Nat
    BY <1>1, <1>3 DEF YSCSPRBooks, PositionBooks
  <2>7. y_balances'[Vault] = y_balances[Vault] \/ y_balances'[Vault] = y_balances[Vault] + amount
    BY <1>3, <2>4
  <2>8. CollateralHeld'
    BY <1>1, <2>2, <2>3, <2>6, <2>7 DEF CollateralHeld, vaultVars
  <2>9. c_supply' = total_debt'
    BY <1>1, <2>2 DEF vaultVars, cusdVars
  <2> QED BY <2>4, <2>5, <2>8, <2>9, IInvPartsNext
<1>6. CASE \E amount \in CUSDAmounts, to \in Users : TransferCUSD(user, to, amount)
  <2>1. PICK amount \in CUSDAmounts, to \in Users : TransferCUSD(user, to, amount)
    BY <1>6
  <2>2. CUSD!Transfer(user, to, amount) /\ UNCHANGED <<vaultVars, yscsprVars, marketVars>>
    BY <2>1 DEF TransferCUSD
  <2>3. amount \in Nat
    BY VaultAssumption
  <2>4. CUSDBooks' /\ c_supply' = c_supply
    BY <1>1, <2>2, <2>3, CUSDMoved
  <2>5. PositionBooks' /\ YSCSPRBooks' /\ MarketBooks'
    BY <1>1, <2>2, SamePositions, SameYSCSPR, SameMarket
  <2>6. c_supply' = total_debt' /\ CollateralHeld'
    BY <1>1, <2>2, <2>4 DEF CollateralHeld, vaultVars, yscsprVars
  <2> QED BY <2>4, <2>5, <2>6, IInvPartsNext
<1> QED BY <1>2, <1>4, <1>5, <1>6

LEMMA MarketStep ==
  ASSUME IInv, MarketMoves
  PROVE  IInv'
<1>1. PositionBooks /\ YSCSPRBooks /\ CUSDBooks /\ c_supply = total_debt /\ CollateralHeld
  BY IInvParts
<1>2. PositionBooks' /\ YSCSPRBooks' /\ CUSDBooks'
  BY <1>1, SamePositions, SameYSCSPR, SameCUSD DEF MarketMoves
<1>3. c_supply' = total_debt' /\ CollateralHeld' /\ MarketBooks'
  BY <1>1 DEF MarketMoves, MarketBooks, CollateralHeld, vaultVars, yscsprVars, cusdVars
<1> QED BY <1>2, <1>3, IInvPartsNext

\* The vault's calls, one by one.
LEMMA VaultCalls ==
  ASSUME VaultNext
  PROVE  \E user \in Users :
           \/ \E amount \in YSCSPRAmounts : Deposit(user, amount)
           \/ \E amount \in YSCSPRAmounts : Withdraw(user, amount)
           \/ \E amount \in CUSDAmounts : Borrow(user, amount)
           \/ \E amount \in CUSDAmounts : Repay(user, amount)
           \/ \E amount \in CUSDAmounts, liquidator \in Users : Liquidate(liquidator, user, amount)
BY DEF VaultNext

LEMMA VaultStep == IInv /\ [Next]_vars => IInv'
<1> SUFFICES ASSUME IInv, [Next]_vars PROVE IInv'
  OBVIOUS
<1>1. CASE VaultNext
  BY <1>1, VaultCalls, DepositStep, WithdrawStep, BorrowStep, RepayStep, LiquidateStep
<1>2. CASE HolderNext
  BY <1>2, HolderStep
<1>3. CASE MarketMoves
  BY <1>3, MarketStep
<1>4. CASE UNCHANGED vars
  <2>1. UNCHANGED <<vaultVars, yscsprVars, cusdVars, marketVars>>
    BY <1>4 DEF vars
  <2>2. c_supply' = c_supply /\ total_debt' = total_debt /\ (CollateralHeld => CollateralHeld')
    BY <2>1 DEF vaultVars, yscsprVars, cusdVars, CollateralHeld
  <2> QED BY <2>1, <2>2, IInvParts, IInvPartsNext, SamePositions, SameYSCSPR, SameCUSD, SameMarket
<1> QED BY <1>1, <1>2, <1>3, <1>4 DEF Next

LEMMA VaultInvariant == Spec => []IInv
BY VaultInit, VaultStep, PTL DEF Spec

(***************************************************************************)
(* The books are right in every reachable state.                           *)
(***************************************************************************)
\* No collateral, debt, balance or allowance goes below zero.
THEOREM VaultTypes == Spec => []TypeOK
<1>1. IInv => TypeOK
  BY DEF IInv
<1> QED BY <1>1, VaultInvariant, PTL

\* The totals account for the positions: whatever users, liquidators, other
\* holders and the market do.
THEOREM VaultTotals == Spec => []TotalsAreSums
<1>1. IInv => TotalsAreSums
  BY DEF IInv
<1> QED BY <1>1, VaultInvariant, PTL

\* Every cUSD is some position's debt, and is held by someone.
THEOREM VaultAccounted == Spec => []CUSDIsDebt
<1>1. IInv => CUSDIsDebt
  BY DEF IInv
<1> QED BY <1>1, VaultInvariant, PTL

\* The vault holds the collateral it accounts for, so that a withdrawal or a
\* liquidation it has checked finds it.
THEOREM CollateralThere == Spec => []CollateralHeld
<1>1. IInv => CollateralHeld
  BY DEF IInv
<1> QED BY <1>1, VaultInvariant, PTL

(***************************************************************************)
(* What no call may do to a position.                                      *)
(***************************************************************************)
\* e lies between p and q.
Average(p, q, e) == e \in (p..q) \cup (q..p)

\* What a call does to the one position it writes, by deposit, borrow, repay,
\* withdraw and liquidate.
LEMMA CallEffect ==
  ASSUME IInv, VaultNext
  PROVE  \E who \in Users, c \in Nat, d \in Nat, e \in Nat :
           /\ SetPosition(who, c, d, e) /\ UNCHANGED marketVars
           /\ \/ /\ c > Collateral(who) /\ d = Debt(who)
                 /\ Collateral(who) # 0 => Average(positions[who].entry_price, price, e)
              \/ /\ c = Collateral(who) /\ d >= Debt(who) /\ d <= CalculateMaxDebt(c)
                 /\ e = positions[who].entry_price
              \/ /\ c = Collateral(who) /\ d <= Debt(who)
                 /\ SumFunction(c_balances) - SumFunction(c_balances') = Debt(who) - d
                 /\ e = positions[who].entry_price
              \/ /\ c <= Collateral(who) /\ d = Debt(who) /\ Healthy(c, d)
                 /\ y_balances'[who] - y_balances[who] = Collateral(who) - c
                 /\ e = positions[who].entry_price
              \/ /\ ~Healthy(Collateral(who), Debt(who)) /\ d <= Debt(who)
                 /\ c = Collateral(who) - CalculateLiquidationAmount(Debt(who) - d)
                 /\ SumFunction(c_balances) - SumFunction(c_balances') = Debt(who) - d
                 /\ e = positions[who].entry_price
<1>1. PositionBooks /\ YSCSPRBooks /\ CUSDBooks /\ MarketBooks
  BY IInvParts
<1>2. YSCSPRAmounts \subseteq Nat /\ CUSDAmounts \subseteq Nat
  BY VaultAssumption
<1>3. PICK who \in Users :
           \/ \E amount \in YSCSPRAmounts : Deposit(who, amount)
           \/ \E amount \in YSCSPRAmounts : Withdraw(who, amount)
           \/ \E amount \in CUSDAmounts : Borrow(who, amount)
           \/ \E amount \in CUSDAmounts : Repay(who, amount)
           \/ \E amount \in CUSDAmounts, liquidator \in Users : Liquidate(liquidator, who, amount)
  BY VaultCalls
<1>4. /\ Collateral(who) \in Nat /\ Debt(who) \in Nat
      /\ who \in DOMAIN positions => positions[who].entry_price \in Nat
  BY <1>1, PositionTypes
<1>5. ASSUME NEW amount \in YSCSPRAmounts, Deposit(who, amount)
      PROVE  \E e \in Nat :
               /\ SetPosition(who, Collateral(who) + amount, Debt(who), e)
               /\ Collateral(who) # 0 => Average(positions[who].entry_price, price, e)
               /\ Collateral(who) + amount \in Nat /\ Collateral(who) + amount > Collateral(who)
               /\ UNCHANGED marketVars
  <2>1. amount \in Nat /\ amount # 0
    BY <1>5, DepositFacts
  <2>2. UNCHANGED marketVars
    BY <1>5 DEF Deposit
  <2>3. Collateral(who) + amount \in Nat /\ Collateral(who) + amount > Collateral(who)
    BY <1>4, <2>1
  <2>4. PICK e \in Nat :
          /\ SetPosition(who, Collateral(who) + amount, Debt(who), e)
          /\ Collateral(who) # 0 => e \in (positions[who].entry_price..price) \cup
                                         (price..positions[who].entry_price)
    BY <1>5, DepositFacts
  <2> QED BY <2>2, <2>3, <2>4 DEF Average
<1>6. ASSUME NEW amount \in CUSDAmounts, Borrow(who, amount)
      PROVE  /\ SetPosition(who, Collateral(who), Debt(who) + amount, positions[who].entry_price)
             /\ Debt(who) + amount \in Nat /\ Debt(who) + amount >= Debt(who)
             /\ Debt(who) + amount <= CalculateMaxDebt(Collateral(who))
             /\ positions[who].entry_price \in Nat /\ UNCHANGED marketVars
  <2>1. amount \in Nat
    BY <1>2
  <2>2. Debt(who) + amount \in Nat /\ Debt(who) + amount >= Debt(who)
    BY <1>4, <2>1
  <2> QED BY <1>4, <1>6, <2>2 DEF Borrow
<1>7. ASSUME NEW amount \in CUSDAmounts, Repay(who, amount)
      PROVE  /\ SetPosition(who, Collateral(who), Debt(who) - amount, positions[who].entry_price)
             /\ Debt(who) - amount \in Nat /\ Debt(who) - amount <= Debt(who)
             /\ SumFunction(c_balances) - SumFunction(c_balances') = Debt(who) - (Debt(who) - amount)
             /\ positions[who].entry_price \in Nat /\ UNCHANGED marketVars
  <2>1. amount \in Nat /\ amount <= Debt(who) /\ CUSD!Burn(Vault, who, amount)
    BY <1>2, <1>7 DEF Repay
  <2>2. Debt(who) - amount \in Nat /\ Debt(who) - amount <= Debt(who)
        /\ Debt(who) - (Debt(who) - amount) = amount
    BY <1>4, <2>1
  <2>3. SumFunction(c_balances) - SumFunction(c_balances') = amount
    BY <1>1, <2>1, CUSDBurned
  <2>4. /\ SetPosition(who, Collateral(who), Debt(who) - amount, positions[who].entry_price)
        /\ who \in DOMAIN positions /\ UNCHANGED marketVars
    BY <1>7 DEF Repay
  <2> QED BY <1>4, <2>2, <2>3, <2>4
<1>8. ASSUME NEW amount \in YSCSPRAmounts, Withdraw(who, amount)
      PROVE  /\ SetPosition(who, Collateral(who) - amount, Debt(who), positions[who].entry_price)
             /\ Collateral(who) - amount \in Nat /\ Collateral(who) - amount <= Collateral(who)
             /\ Healthy(Collateral(who) - amount, Debt(who))
             /\ y_balances'[who] - y_balances[who] = Collateral(who) - (Collateral(who) - amount)
             /\ positions[who].entry_price \in Nat /\ UNCHANGED marketVars
  <2>1. amount \in Nat /\ amount <= Collateral(who) /\ YSCSPR!Transfer(Vault, who, amount)
    BY <1>2, <1>8 DEF Withdraw
  <2>2. Collateral(who) - amount \in Nat /\ Collateral(who) - amount <= Collateral(who)
        /\ Collateral(who) - (Collateral(who) - amount) = amount
    BY <1>4, <2>1
  <2>3. who \in Holders /\ Vault \in Holders
    BY DEF Holders
  <2>4. y_balances'[who] = y_balances[who] + amount
    BY <1>1, <2>1, <2>3, YSCSPRTransferred
  <2>5. y_balances[who] \in Nat
    BY <1>1, <2>3 DEF YSCSPRBooks
  <2>6. y_balances'[who] - y_balances[who] = amount
    BY <2>1, <2>4, <2>5
  <2>7. BASIS_POINTS \in Nat /\ U64 \in Nat
    BY VaultAssumption
  <2>8. Debt(who) # 0 =>
          CalculateHealthFactor(Collateral(who) - amount, Debt(who)) \in BASIS_POINTS..(U64 - 1)
    BY <1>8 DEF Withdraw
  <2>9. Healthy(Collateral(who) - amount, Debt(who))
    BY <2>7, <2>8 DEF Healthy
  <2>10. /\ SetPosition(who, Collateral(who) - amount, Debt(who), positions[who].entry_price)
         /\ who \in DOMAIN positions /\ UNCHANGED marketVars
    BY <1>8 DEF Withdraw
  <2> QED BY <1>4, <2>2, <2>6, <2>9, <2>10
<1>9. ASSUME NEW amount \in CUSDAmounts, NEW liquidator \in Users,
             Liquidate(liquidator, who, amount)
      PROVE  /\ SetPosition(who, Collateral(who) - CalculateLiquidationAmount(amount),
                            Debt(who) - amount, positions[who].entry_price)
             /\ ~Healthy(Collateral(who), Debt(who))
             /\ Collateral(who) - CalculateLiquidationAmount(amount) \in Nat
             /\ Debt(who) - amount \in Nat /\ Debt(who) - amount <= Debt(who)
             /\ Debt(who) - (Debt(who) - amount) = amount
             /\ SumFunction(c_balances) - SumFunction(c_balances') = amount
             /\ positions[who].entry_price \in Nat /\ UNCHANGED marketVars
  <2>1. /\ amount <= Debt(who) /\ CUSD!Burn(Vault, liquidator, amount)
        /\ CalculateLiquidationAmount(amount) <= Collateral(who)
        /\ SetPosition(who, Collateral(who) - CalculateLiquidationAmount(amount),
                       Debt(who) - amount, positions[who].entry_price)
        /\ ~Healthy(Collateral(who), Debt(who))
        /\ who \in DOMAIN positions /\ UNCHANGED marketVars
    BY <1>9 DEF Liquidate, IsLiquidatable
  <2>2. amount \in Nat /\ CalculateLiquidationAmount(amount) \in Nat
    BY <1>1, <1>2, LiquidationAmountNat
  <2>3. /\ Collateral(who) - CalculateLiquidationAmount(amount) \in Nat
        /\ Debt(who) - amount \in Nat /\ Debt(who) - amount <= Debt(who)
        /\ Debt(who) - (Debt(who) - amount) = amount
    BY <1>4, <2>1, <2>2
  <2>4. SumFunction(c_balances) - SumFunction(c_balances') = amount
    BY <1>1, <2>1, <2>2, CUSDBurned
  <2> QED BY <1>4, <2>1, <2>3, <2>4
<1>10. CASE \E amount \in YSCSPRAmounts : Deposit(who, amount)
  BY <1>4, <1>5, <1>10
<1>11. CASE \E amount \in CUSDAmounts : Borrow(who, amount)
  BY <1>4, <1>6, <1>11
<1>12. CASE \E amount \in CUSDAmounts : Repay(who, amount)
  BY <1>4, <1>7, <1>12
<1>13. CASE \E amount \in YSCSPRAmounts : Withdraw(who, amount)
  BY <1>4, <1>8, <1>13
<1>14. CASE \E amount \in CUSDAmounts, liquidator \in Users : Liquidate(liquidator, who, amount)
  BY <1>4, <1>9, <1>14
<1> QED BY <1>3, <1>10, <1>11, <1>12, <1>13, <1>14

\* Outside the vault's calls no position changes.
LEMMA OtherSteps ==
  ASSUME [Next]_vars, ~VaultNext
  PROVE  /\ positions' = positions
         /\ \A user : Collateral(user)' = Collateral(user) /\ Debt(user)' = Debt(user)
<1>1. positions' = positions
  BY DEF Next, HolderNext, ApproveVault, TransferYSCSPR, TransferCUSD, MarketMoves, vars, vaultVars
<1> QED BY <1>1 DEF Collateral, Debt

\* The call's user and everybody else after it.
LEMMA Written ==
  ASSUME IInv, NEW who \in Users, NEW c \in Nat, NEW d \in Nat, NEW e \in Nat,
         SetPosition(who, c, d, e)
  PROVE  /\ Collateral(who)' = c /\ Debt(who)' = d /\ positions'[who].entry_price = e
         /\ \A u \in Users : u # who => Collateral(u)' = Collateral(u) /\ Debt(u)' = Debt(u)
         /\ \A u \in DOMAIN positions : u # who => positions'[u] = positions[u]
         /\ DOMAIN positions \subseteq Users
         /\ \A u \in Users : Collateral(u) \in Nat /\ Debt(u) \in Nat
<1>1. PositionBooks
  BY IInvParts
<1> QED BY <1>1, PositionWritten, PositionTypes DEF PositionBooks

\* A position's health, while the market stands still, is a matter of its
\* collateral and debt.
LEMMA HealthAfter ==
  ASSUME UNCHANGED marketVars, NEW user, NEW c, NEW d,
         Collateral(user)' = c, Debt(user)' = d
  PROVE  Healthy(Collateral(user), Debt(user))' <=> Healthy(c, d)
BY DEF Healthy, CalculateHealthFactor, CollateralToUsd, marketVars

\* While the market stands still, no call of anyone makes a healthy position
\* unhealthy, whatever the parameters and the roundings.
THEOREM HealthKept == Spec => HealthyStaysHealthy
<1> DEFINE A == UNCHANGED marketVars =>
                  \A user \in Users :
                    Healthy(Collateral(user), Debt(user)) => Healthy(Collateral(user), Debt(user))'
<1>1. ASSUME IInv, [Next]_vars, UNCHANGED marketVars, NEW user \in Users,
             Healthy(Collateral(user), Debt(user))
      PROVE  Healthy(Collateral(user), Debt(user))'
  <2>1. CASE VaultNext
    <3>1. PICK who \in Users, c \in Nat, d \in Nat, e \in Nat :
            /\ SetPosition(who, c, d, e)
            /\ \/ c > Collateral(who) /\ d = Debt(who)
               \/ c = Collateral(who) /\ d <= CalculateMaxDebt(c)
               \/ c = Collateral(who) /\ d <= Debt(who)
               \/ Healthy(c, d)
               \/ ~Healthy(Collateral(who), Debt(who))
      BY <1>1, <2>1, CallEffect
    <3>2. MarketBooks
      BY <1>1, IInvParts
    <3>3. /\ Collateral(who)' = c /\ Debt(who)' = d
          /\ \A u \in Users : u # who => Collateral(u)' = Collateral(u) /\ Debt(u)' = Debt(u)
          /\ \A u \in Users : Collateral(u) \in Nat /\ Debt(u) \in Nat
      BY <1>1, <3>1, Written
    <3>4. CASE user # who
      BY <1>1, <3>3, <3>4, HealthAfter
    <3>5. CASE user = who
      <4> DEFINE C == Collateral(who)
                 D == Debt(who)
      <4>1. /\ C \in Nat /\ D \in Nat /\ Healthy(C, D)
            /\ CollateralToUsd(C) \in Nat /\ CollateralToUsd(c) \in Nat
            /\ DEFAULT_LTV \in Nat /\ DEFAULT_LIQ_THRESHOLD \in Nat /\ BASIS_POINTS \in Nat \ {0}
            /\ DEFAULT_LTV <= DEFAULT_LIQ_THRESHOLD
        BY <1>1, <3>2, <3>3, <3>5, CollateralToUsdNat, VaultAssumption
      <4>2. D = 0 \/ CollateralToUsd(C) * DEFAULT_LIQ_THRESHOLD >= D * BASIS_POINTS
        <5> HIDE DEF C, D
        <5> QED BY <3>2, <4>1, HealthyMeans
      <4>3. \/ c > C /\ d = D
            \/ c = C /\ d <= CalculateMaxDebt(c)
            \/ c = C /\ d <= D
            \/ Healthy(c, d)
        BY <3>1, <4>1
      <4> HIDE DEF C, D
      <4>4. ASSUME c > C /\ d = D PROVE Healthy(c, d)
        <5>1. CollateralToUsd(C) <= CollateralToUsd(c)
          BY <3>2, <4>1, <4>4, UsdMonotone
        <5>2. CollateralToUsd(C) * DEFAULT_LIQ_THRESHOLD <= CollateralToUsd(c) * DEFAULT_LIQ_THRESHOLD
          BY <4>1, <5>1
        <5>3. /\ CollateralToUsd(C) * DEFAULT_LIQ_THRESHOLD \in Nat
              /\ CollateralToUsd(c) * DEFAULT_LIQ_THRESHOLD \in Nat
              /\ d * BASIS_POINTS \in Nat
          BY <4>1
        <5>4. d = 0 \/ CollateralToUsd(c) * DEFAULT_LIQ_THRESHOLD >= d * BASIS_POINTS
          BY <4>2, <4>4, <5>2, <5>3
        <5> QED BY <3>2, <5>4, HealthyMeans
      <4>5. ASSUME c = C /\ d <= CalculateMaxDebt(c) PROVE Healthy(c, d)
        <5> DEFINE usd == CollateralToUsd(c)
        <5>1. usd * DEFAULT_LTV \in Nat /\ usd * DEFAULT_LTV <= usd * DEFAULT_LIQ_THRESHOLD
              /\ usd * DEFAULT_LIQ_THRESHOLD \in Nat
          BY <4>1
        <5>2. (usd * DEFAULT_LTV) \div BASIS_POINTS >= d
          <6>1. (usd * DEFAULT_LTV) \div BASIS_POINTS \in Nat
            BY <4>1, <5>1, DivNat
          <6>2. d <= (usd * DEFAULT_LTV) \div BASIS_POINTS
            BY <4>5 DEF CalculateMaxDebt
          <6> HIDE DEF usd
          <6> QED BY <6>1, <6>2
        <5>3. usd * DEFAULT_LTV >= d * BASIS_POINTS
          BY <4>1, <5>1, <5>2, DivAtLeast
        <5>4. usd * DEFAULT_LIQ_THRESHOLD >= d * BASIS_POINTS
          <6>1. d * BASIS_POINTS \in Nat
            BY <4>1
          <6> HIDE DEF usd
          <6> QED BY <5>1, <5>3, <6>1
        <5> QED BY <3>2, <5>4, HealthyMeans
      <4>6. ASSUME c = C /\ d <= D PROVE Healthy(c, d)
        <5>1. d * BASIS_POINTS <= D * BASIS_POINTS /\ (D = 0 => d = 0)
          BY <4>1, <4>6
        <5>2. /\ d * BASIS_POINTS \in Nat /\ D * BASIS_POINTS \in Nat
              /\ CollateralToUsd(c) * DEFAULT_LIQ_THRESHOLD \in Nat
          BY <4>1
        <5>3. d = 0 \/ CollateralToUsd(c) * DEFAULT_LIQ_THRESHOLD >= d * BASIS_POINTS
          BY <4>2, <4>6, <5>1, <5>2
        <5> QED BY <3>2, <5>3, HealthyMeans
      <4>7. Healthy(c, d)
        BY <4>3, <4>4, <4>5, <4>6
      <4> QED BY <1>1, <3>3, <3>5, <4>7, HealthAfter
    <3> QED BY <3>4, <3>5
  <2>2. CASE ~VaultNext
    <3>1. Collateral(user)' = Collateral(user) /\ Debt(user)' = Debt(user)
      BY <1>1, <2>2, OtherSteps
    <3> QED BY <1>1, <3>1, HealthAfter
  <2> QED BY <2>1, <2>2
<1>2. IInv /\ [Next]_vars => [A]_vars
  BY <1>1
<1>3. Spec => [][A]_vars
  BY <1>2, VaultInvariant, PTL DEF Spec
<1> QED BY <1>3 DEF HealthyStaysHealthy

\* A liquidator never takes collateral worth more than the debt covered and
\* the penalty on it, at any price and rate.
THEOREM SeizureBounded == Spec => SeizureIsBounded
<1> DEFINE A == \A user \in Users :
                  Debt(user)' < Debt(user) /\ Collateral(user)' < Collateral(user) =>
                    CollateralToUsd(Collateral(user) - Collateral(user)') * BASIS_POINTS
                      <= (Debt(user) - Debt(user)') * (BASIS_POINTS + DEFAULT_LIQ_PENALTY)
<1>1. ASSUME IInv, [Next]_vars, NEW user \in Users,
             Debt(user)' < Debt(user), Collateral(user)' < Collateral(user)
      PROVE  CollateralToUsd(Collateral(user) - Collateral(user)') * BASIS_POINTS
               <= (Debt(user) - Debt(user)') * (BASIS_POINTS + DEFAULT_LIQ_PENALTY)
  <2>1. MarketBooks /\ PositionBooks
    BY <1>1, IInvParts
  <2>2. Collateral(user) \in Nat /\ Debt(user) \in Nat
    BY <2>1, PositionTypes
  <2>3. VaultNext
    BY <1>1, <2>2, OtherSteps
  <2>4. PICK who \in Users, c \in Nat, d \in Nat, e \in Nat :
          /\ SetPosition(who, c, d, e)
          /\ \/ d = Debt(who)
             \/ c = Collateral(who)
             \/ /\ d <= Debt(who)
                /\ c = Collateral(who) - CalculateLiquidationAmount(Debt(who) - d)
    BY <1>1, <2>3, CallEffect
  <2>5. /\ Collateral(who)' = c /\ Debt(who)' = d
        /\ \A u \in Users : u # who => Collateral(u)' = Collateral(u) /\ Debt(u)' = Debt(u)
    BY <1>1, <2>4, Written
  <2>6. user = who
    BY <1>1, <2>2, <2>5
  <2>7. d <= Debt(who) /\ c = Collateral(who) - CalculateLiquidationAmount(Debt(who) - d)
    BY <1>1, <2>2, <2>4, <2>5, <2>6
  <2>8. Debt(who) - d \in Nat
    BY <2>2, <2>6, <2>7
  <2>9. CalculateLiquidationAmount(Debt(who) - d) \in Nat
    BY <2>1, <2>8, LiquidationAmountNat
  <2>10. Collateral(who) - c = CalculateLiquidationAmount(Debt(who) - d)
    BY <2>2, <2>6, <2>7, <2>9
  <2>11. CollateralToUsd(CalculateLiquidationAmount(Debt(who) - d)) * BASIS_POINTS
           <= (Debt(who) - d) * (BASIS_POINTS + DEFAULT_LIQ_PENALTY)
    BY <2>1, <2>8, SeizureWorth
  <2> QED BY <2>5, <2>6, <2>10, <2>11
<1>2. IInv /\ [Next]_vars => [A]_vars
  BY <1>1
<1>3. Spec => [][A]_vars
  BY <1>2, VaultInvariant, PTL DEF Spec
<1> QED BY <1>3 DEF SeizureIsBounded

\* Collateral leaves a position only to its owner or because it is unhealthy;
\* a debt falls only as that much cUSD is burnt.
THEOREM CollateralSafe == Spec => CollateralIsSafe
<1> DEFINE Safe(user) ==
             /\ Collateral(user)' < Collateral(user) =>
                  \/ y_balances'[user] - y_balances[user] = Collateral(user) - Collateral(user)'
                  \/ ~Healthy(Collateral(user), Debt(user))
             /\ Debt(user)' < Debt(user) =>
                  SumFunction(c_balances) - SumFunction(c_balances') = Debt(user) - Debt(user)'
           A == \A user \in Users : Safe(user)
<1>1. ASSUME IInv, [Next]_vars, NEW user \in Users
      PROVE  Safe(user)
  <2>1. Collateral(user) \in Nat /\ Debt(user) \in Nat
    BY <1>1, IInvParts, PositionTypes
  <2>2. CASE VaultNext
    <3>1. PICK who \in Users, c \in Nat, d \in Nat, e \in Nat :
            /\ SetPosition(who, c, d, e)
            /\ \/ c > Collateral(who) /\ d = Debt(who)
               \/ c = Collateral(who) /\ d >= Debt(who)
               \/ /\ c = Collateral(who)
                  /\ SumFunction(c_balances) - SumFunction(c_balances') = Debt(who) - d
               \/ /\ d = Debt(who)
                  /\ y_balances'[who] - y_balances[who] = Collateral(who) - c
               \/ /\ ~Healthy(Collateral(who), Debt(who))
                  /\ SumFunction(c_balances) - SumFunction(c_balances') = Debt(who) - d
      BY <1>1, <2>2, CallEffect
    <3>2. /\ Collateral(who)' = c /\ Debt(who)' = d
          /\ \A u \in Users : u # who => Collateral(u)' = Collateral(u) /\ Debt(u)' = Debt(u)
      BY <1>1, <3>1, Written
    <3>3. CASE user = who
      <4>1. ~(c > Collateral(who) /\ c < Collateral(who)) /\ ~(d >= Debt(who) /\ d < Debt(who))
            /\ ~(Collateral(who) < Collateral(who)) /\ ~(Debt(who) < Debt(who))
        BY <2>1, <3>3
      <4> QED BY <3>1, <3>2, <3>3, <4>1
    <3>4. CASE user # who
      BY <2>1, <3>2, <3>4
    <3> QED BY <3>3, <3>4
  <2>3. CASE ~VaultNext
    <3>1. Collateral(user)' = Collateral(user) /\ Debt(user)' = Debt(user)
      BY <1>1, <2>3, OtherSteps
    <3> QED BY <2>1, <3>1
  <2> QED BY <2>2, <2>3
<1>2. IInv /\ [Next]_vars => [A]_vars
  BY <1>1
<1>3. Spec => [][A]_vars
  BY <1>2, VaultInvariant, PTL DEF Spec
<1> QED BY <1>3 DEF CollateralIsSafe

\* The entry price moves only by a deposit, and not beyond its price.
THEOREM EntryPriceAverages == Spec => EntryPriceIsAverage
<1> DEFINE Averages(user) ==
             LET old == positions[user].entry_price
                 new == positions'[user].entry_price
             IN  /\ new # old => Collateral(user)' > Collateral(user)
                 /\ Collateral(user) # 0 => new \in (old..price) \cup (price..old)
           A == \A user \in DOMAIN positions : Averages(user)
<1>1. ASSUME IInv, [Next]_vars, NEW user \in DOMAIN positions
      PROVE  Averages(user)
  <2>1. /\ MarketBooks /\ PositionBooks /\ user \in Users
        /\ positions[user].entry_price \in Nat /\ price \in Nat
    BY <1>1, IInvParts, PositionTypes, VaultAssumption DEF MarketBooks, PositionBooks
  <2>2. ASSUME positions'[user].entry_price = positions[user].entry_price
        PROVE  Averages(user)
    <3> DEFINE old == positions[user].entry_price
    <3>1. old \in (old..price) \cup (price..old)
      <4>1. old \in Nat
        BY <2>1
      <4> HIDE DEF old
      <4> QED BY <2>1, <4>1
    <3> QED BY <2>2, <3>1
  <2>3. CASE VaultNext
    <3>1. PICK who \in Users, c \in Nat, d \in Nat, e \in Nat :
            /\ SetPosition(who, c, d, e)
            /\ \/ /\ c > Collateral(who)
                  /\ Collateral(who) # 0 => Average(positions[who].entry_price, price, e)
               \/ e = positions[who].entry_price
      BY <1>1, <2>3, CallEffect
    <3>2. /\ Collateral(who)' = c /\ positions'[who].entry_price = e
          /\ \A u \in DOMAIN positions : u # who => positions'[u] = positions[u]
      BY <1>1, <3>1, Written
    <3>3. CASE user = who /\ e # positions[who].entry_price
      BY <3>1, <3>2, <3>3 DEF Average
    <3>4. CASE user # who \/ e = positions[who].entry_price
      <4>1. positions'[user].entry_price = positions[user].entry_price
        BY <3>2, <3>4
      <4> QED BY <2>2, <4>1
    <3> QED BY <3>3, <3>4
  <2>4. CASE ~VaultNext
    <3>1. positions' = positions
      BY <1>1, <2>4, OtherSteps
    <3> QED BY <2>2, <3>1
  <2> QED BY <2>3, <2>4
<1>2. IInv /\ [Next]_vars => [A]_vars
  BY <1>1
<1>3. Spec => [][A]_vars
  BY <1>2, VaultInvariant, PTL DEF Spec
<1> QED BY <1>3 DEF EntryPriceIsAverage
=============================================================================
