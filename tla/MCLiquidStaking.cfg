SPECIFICATION Spec
CONSTANTS
  alice = alice
  bob = bob
  Users = {alice, bob}
  Validators = {v1}
  Owner = owner
  Keepers = {keeper1}
  MIN_STAKE = 20
  MAX_SINGLE_STAKE = 40
  UNBONDING_DELAY = 1
  PROTOCOL_FEE_BPS = 1
  MIN_MULTIPLIER = 5
  MAX_MULTIPLIER = 15
  BASIS_POINTS = 10
  MOTES_PER_CSPR = 10
  StakeAmounts = {19, 20, 41}
  TokenAmounts = {0, 3}
  KeeperAmounts = {25}
  Scores = {0, 4, 20}
  Averages = {8}
  EraArgs = {1, 3}
  U64 = 4
  MaxEra = 2
  MaxRequests = 2
  MaxPool = 40
SYMMETRY Symmetry
INVARIANTS
  TypeOK
  ValidatorTotals
  PrincipalCovered
  PendingIsSum
  PendingListed
  RateFloor
PROPERTIES
  PromiseKept
  RateFallsOnlyByMint
  QueuesFollowPrincipal
  ConfirmedIsDelegated
  RequestsAreFinal
