CONSTANTS
    c1 = c1  c1x = c1x  r1 = r1  r2 = r2  r3 = r3  r4 = r4  r5 = r5  r6 = r6
    Accounts = {c1, c1x}
    NameOf <- MCNameOf
    Restores = {r1, r2, r3, r4, r5, r6}
    AccountOf <- MCAccountOf
    KindOf <- MCKindOf
    Applies = {r4}
    HasTarget = {r5}
    MaxConcurrent = 1
    MaxCrashes = 1
    Nothing = Nothing
SPECIFICATION Spec
INVARIANTS ArchiveIsOwn SupersedesItsOwn NothingLeftStaged
CHECK_DEADLOCK FALSE
