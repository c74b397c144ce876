SPECIFICATION Spec
CONSTANTS
  Owner = owner
  Updaters = {updater1}
  StyksContracts = {styks1, styks2}
  InitialPrice = 12
  MIN_ACCEPTABLE_PRICE = 10
  MAX_ACCEPTABLE_PRICE = 14
  MAX_AGE_DEFAULT = 2
  Prices = {9, 10, 14, 15}
  MaxAges = {0, 1}
  MaxTime = 4
  MaxRound = 3
INVARIANTS
  TypeOK
  FreshOrFallback
  ViewsAgree
