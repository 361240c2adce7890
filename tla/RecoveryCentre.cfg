SPECIFICATION Spec
CONSTANTS
    r1 = r1
    r2 = r2
    s1 = s1
    files = files
    dns = dns
    Requests = {r1, r2}
    Strangers = {s1}
    Items = {files, dns}
    Downloads = {dns}
    Left <- MCLeft
    Lifetime = 2
    TTL = 1
    MaxTotal = 2
    MaxPerUID = 2
    MaxTokens = 2
    MaxClock = 2
    MaxChanges = 1
    MaxCrashes = 1
SYMMETRY Alike
INVARIANTS
    LoginIsEntitled
    NothingChosenIsLost
PROPERTIES
    ServesOnce
    CutOffInTime
CHECK_DEADLOCK FALSE
