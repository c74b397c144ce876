SPECIFICATION Spec
CONSTANTS
  alice = alice
  bob = bob
  Users = {alice, bob}
  Validators = {v1}
  Owner = owner
  Keepers = {keeper1}
  MIN_STAKE = 20
  MAX_SINGLE_STAKE = 40
  UNBONDING_DELAY = 7
  PROTOCOL_FEE_BPS = 1
  MIN_MULTIPLIER = 5
  MAX_MULTIPLIER = 15
  BASIS_POINTS = 10
  MOTES_PER_CSPR = 10
  StakeAmounts = {19, 20, 41}
  TokenAmounts = {0, 3}
  KeeperAmounts = {50}
  Scores = {0, 4, 12}
  Averages = {8}
  EraArgs = {0, 1, 2, 8, 9}
  U64 = 16
  MaxEra = 3
  MaxRequests = 2
  MaxPool = 50
SYMMETRY Symmetry
PROPERTIES
  WaitingPeriod
