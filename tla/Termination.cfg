SPECIFICATION RemovalSpec
CONSTANTS
    Repos = {1, 2, 3, 4}
    Plans <- MCPlans
    Steady <- MCSteady
    Keep = 1
    MaxClock = 2
    MaxJobs = 2
    MaxEdits = 1
    MaxHolders = 2
    MaxForgets = 1
    MaxCrashes = 1
INVARIANTS
    CoverIsSmallest
    PreparationSuffices
    ForgottenLeavesNothing
PROPERTIES
    AllowedHasCopies
CHECK_DEADLOCK FALSE
