SPECIFICATION Spec
CONSTANTS
  v1 = v1
  v2 = v2
  v3 = v3
  Validators = {v1, v2, v3}
  Owner = owner
  Keepers = {keeper1}
  MIN_P_AVG = 10
  MAX_P_AVG = 100
  DEFAULT_P_AVG = 80
  MAX_VALIDATORS_PER_UPDATE = 1
  STALE_DATA_ERAS = 1
  U64 = 16
  Fees = {5, 10}
  DecayFactors = {0}
  PAvgs = {80}
  MaxBatch = 1
  MaxLag = 3
  MaxEra = 2
  Updates = {u1, u2}
  BATCH_SIZE = 1
  P_AVG = 80
  MaxValidators = 2
  ERAS_TO_FETCH = 2
  BidTables <- MCTables
  Performance <- MCPerformance
  MaxInFlight = 2
  MaxFaults = 1
INVARIANTS
  BatchesAreAcceptable
  StampIsHonest
  MarkedEraArrives
PROPERTIES
  CatchesUp
