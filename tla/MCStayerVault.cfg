SPECIFICATION Spec
CONSTANTS
  alice = alice
  bob = bob
  Users = {alice, bob}
  DEFAULT_LTV = 5
  DEFAULT_LIQ_THRESHOLD = 11
  DEFAULT_LIQ_PENALTY = 1
  DEFAULT_MIN_COLLATERAL = 2
  BASIS_POINTS = 10
  MOTES_PER_CSPR = 10
  U64 = 60
  Endowment = 2
  YSCSPRAmounts = {1, 2}
  CUSDAmounts = {1, 2}
  Prices = {0, 7, 10}
  Rates = {0, 15}
  MaxDebt = 3
SYMMETRY Symmetry
INVARIANTS
  TypeOK
  TotalsAreSums
  CUSDIsDebt
  CollateralHeld
PROPERTIES
  CollateralIsSafe
  HealthyStaysHealthy
  SeizureIsBounded
  EntryPriceIsAverage
