CONSTANTS
    j1 = j1  j2 = j2  j3 = j3  j4 = j4  r1 = r1  r2 = r2
    a1 = a1  a2 = a2  a3 = a3  s1 = s1  x = x  y = y  p1 = p1  p2 = p2  p3 = p3
    Jobs = {j1, j3, j4}
    Restores = {r1}
    Servers = {s1}
    Repos = {x, y}
    Accounts = {a1, a2, a3}
    Policies = {p1, p2, p3}
    Tokens = {t1, t2, t3, t4}
    NoToken = NoToken
    NoWork = NoWork
    Applies = {r1}
    AccountOf <- MCAccountOf
    PolicyOf <- MCPolicyOf
    RepositoriesOf <- MCRepositoriesOf
    ServerOf <- MCServerOf
    MaxConcurrency <- MCOneAtATime
    MaxFaults = 1
    SlowWork = TRUE
SYMMETRY TokenSymmetry
SPECIFICATION Spec
INVARIANTS DestructiveRestoreRunsOnce SuccessHasCopies
PROPERTIES NotClosedUnderItsHolder ImplementsWorkQueue
CHECK_DEADLOCK FALSE
