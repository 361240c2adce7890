SPECIFICATION Spec
CONSTANTS
  t1 = t1
  t2 = t2
  a = a
  db1 = db1
  dns = dns
  Tabs <- MCTabs
  Accounts <- MCAccounts
  Parts <- MCParts
  KindOf <- MCKindOf
  Downloads = {"dns"}
  MaxClock = 2
  MaxChanges = 2
  MaxAsked = 1
  MaxEvents = 2
SYMMETRY Symmetric
INVARIANTS AppliesWhatWasRead BasketGoesWithItsHolder
CHECK_DEADLOCK FALSE
