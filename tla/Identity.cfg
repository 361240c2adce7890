SPECIFICATION IdentitySpec
CONSTANTS
  Names = {alice, bob}
  Uids = {u1, u2}
  MaxTime = 7
  MaxRestores = 1
  MaxBusy = 2
  MaxFaults = 1
  NoOne = NoOne
SYMMETRY Symmetry
INVARIANTS
  ShowsOnlyTheirOwn
  RestoreIsTheirOwn
  PolicyNeverWidens
PROPERTIES
  OwnBackupsStayVisible
CHECK_DEADLOCK FALSE
