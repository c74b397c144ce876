SPECIFICATION WorkerSpec
CONSTANTS
  j1 = j1
  j2 = j2
  v1 = v1
  Users = {alice}
  Validators = {v1}
  Owner = owner
  Keepers = {keeper1}
  MIN_STAKE = 20
  MAX_SINGLE_STAKE = 40
  UNBONDING_DELAY = 0
  PROTOCOL_FEE_BPS = 1
  MIN_MULTIPLIER = 5
  MAX_MULTIPLIER = 15
  BASIS_POINTS = 10
  MOTES_PER_CSPR = 10
  StakeAmounts = {20}
  TokenAmounts = {2}
  KeeperAmounts = {}
  Scores = {8}
  Averages = {8}
  EraArgs = {1}
  U64 = 16
  MaxEra = 2
  MaxRequests = 1
  MaxPool = 40
  Jobs = {j1, j2}
  Handlers <- MCHandlers
  Lists <- MCLists
  UNBONDING_PERIOD = 1
  KEEP_ERAS = 1
  AUCTION_DELAY = 1
  MIN_DELEGATION = 20
  OTHERS_DELEGATION = 100
  Rewards = {10}
  MaxFaults = 1
INVARIANTS
  QueuesAreHonest
  ReadyIsInAccount
  Solvent
PROPERTIES
  ReadyIsDeposited
