SPECIFICATION Spec
CONSTANTS
  f1 = f1
  f2 = f2
  f3 = f3
  Flows = {f1, f2, f3}
  Users = {alice, bob}
  DEFAULT_LTV = 5
  DEFAULT_LIQ_THRESHOLD = 11
  DEFAULT_LIQ_PENALTY = 1
  DEFAULT_MIN_COLLATERAL = 1
  BASIS_POINTS = 10
  MOTES_PER_CSPR = 10
  U64 = 1000
  Endowment = 3
  YSCSPRAmounts = {0, 1, 2, 4}
  CUSDAmounts = {}
  Prices = {20}
  Rates = {20}
  MaxDebt = 0
  CENT = 2
SYMMETRY Symmetry
INVARIANTS
  CollateralIsApproved
