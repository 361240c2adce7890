SPECIFICATION Spec
CONSTANTS
    MaxBuild = 2
    Tags = {1, 2}
    First = {1}
    Pushes <- MCPushes
    MaxAttempts = 2
    MaxPublished = 1
    MaxChoices = 2
    MaxWork = 1
    MaxCrashes = 1
INVARIANTS
    InstallsWhatWasAgreed
PROPERTIES
    VerdictIsTheInstallers
    UpgradeEnds
CHECK_DEADLOCK FALSE
