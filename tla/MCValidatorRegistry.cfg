SPECIFICATION Spec
CONSTANTS
  v1 = v1
  v2 = v2
  Validators = {v1, v2}
  Owner = owner
  Keepers = {keeper1}
  MIN_P_AVG = 10
  MAX_P_AVG = 100
  DEFAULT_P_AVG = 80
  MAX_VALIDATORS_PER_UPDATE = 2
  STALE_DATA_ERAS = 1
  U64 = 16
  Fees = {5, 101}
  DecayFactors = {0, 90}
  PAvgs = {9, 80}
  MaxBatch = 3
  MaxLag = 2
  MaxEra = 5
SYMMETRY Symmetry
INVARIANTS
  TypeOK
  LastUpdateIsLatest
  BehindFindsNobody
PROPERTIES
  NewerDataWins
