SPECIFICATION Spec
CONSTANTS
  Policies = {nightly, weekly}
  MaxKeep = 2
  MaxSnapshots = 3
  MaxEdits = 2
SYMMETRY Symmetry
INVARIANTS
  AppliesWhatWasApproved
PROPERTIES
  KnownGoodStays
  MostGenerousIsKept
CHECK_DEADLOCK FALSE
