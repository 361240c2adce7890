SPECIFICATION Spec
CONSTANTS
    p1 = p1
    p2 = p2
    Procs = {p1, p2}
    Places = {"here", "there"}
    Theirs = {"there"}
    h1 = h1
    h2 = h2
    Hosts = {h1, h2}
    MaxDests = 2
    MaxOps = 4
    MaxSwaps = 1
    MaxCrashes = 1
SYMMETRY Alike
INVARIANTS
    MarkedIsReadable
    ChunksFollowTheSource
    PasswordOnlyToAgreedHost
CHECK_DEADLOCK FALSE
