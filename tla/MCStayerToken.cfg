SPECIFICATION Spec
CONSTANTS
  alice = alice
  bob = bob
  carol = carol
  Accounts = {alice, bob, carol}
  Owner = deployer
  Minters = {vault, pool}
  InitialMinter = vault
  Amounts = {0, 1, 2}
  MaxSupply = 2
SYMMETRY Symmetry
INVARIANTS
  TypeOK
  SupplyIsSum
  SpendingIsAllowed
