SPECIFICATION EngineSpec
CONSTANTS
  alice = alice
  bob = bob
  nightly = nightly
  NoAccount = NoAccount
  Accounts <- MCAccounts
  Policies <- MCPolicies
  Covers <- MCCovers
  MaxRecords = 3
  MaxSlots = 1
  MaxRestarts = 1
  MaxFaults = 1
INVARIANTS
  OneRequestInFlight
  BegunAtMostOnce
PROPERTIES
  QueueDrains
