SPECIFICATION Spec
CONSTANTS
  alice = alice
  bob = bob
  Users = {alice, bob}
  DEFAULT_LTV = 5
  DEFAULT_LIQ_THRESHOLD = 11
  DEFAULT_LIQ_PENALTY = 1
  DEFAULT_MIN_COLLATERAL = 4
  BASIS_POINTS = 10
  MOTES_PER_CSPR = 10
  U64 = 1000
  Endowment = 4
  YSCSPRAmounts = {1, 2, 4}
  CUSDAmounts = {2}
  Prices = {5, 20}
  Rates = {10}
  MaxDebt = 4
SYMMETRY Symmetry
PROPERTIES
  MinCollateralRatio
