SPECIFICATION Spec
CONSTANTS
  Owner = owner
  Updaters = {}
  StyksContracts = {styks}
  InitialPrice = 12
  MIN_ACCEPTABLE_PRICE = 10
  MAX_ACCEPTABLE_PRICE = 14
  MAX_AGE_DEFAULT = 1
  Prices = {10, 14}
  MaxAges = {}
  MaxTime = 3
  MaxRound = 2
  Users = {alice}
  DEFAULT_LTV = 5
  DEFAULT_LIQ_THRESHOLD = 11
  DEFAULT_LIQ_PENALTY = 1
  DEFAULT_MIN_COLLATERAL = 1
  BASIS_POINTS = 10
  MOTES_PER_CSPR = 10
  U64 = 60
  Endowment = 2
  YSCSPRAmounts = {2}
  CUSDAmounts = {1}
  Rates = {10, 15}
  MaxDebt = 2
PROPERTIES
  StaleHalts
