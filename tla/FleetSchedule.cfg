CONSTANTS
    j1 = j1  j2 = j2   r1 = r1  a1 = a1   s1 = s1  x = x  p1 = p1
    Jobs = {j1, j2}
    Restores = {r1}
    Servers = {s1}
    Repos = {x}
    Accounts = {a1}
    Policies = {p1}
    Tokens = {t1}
    NoToken = NoToken
    NoWork = NoWork
    NoPolicy = NoPolicy
    Applies = {r1}
    AccountOf <- MCAccountOf
    PolicyOf <- MCPolicyOf
    RepositoriesOf <- MCRepositoriesOf
    ServerOf <- MCServerOf
    SourceOf <- MCSourceOf
    MaxConcurrency <- MCMaxConcurrency
    MaxFaults = 1
    SlowWork = TRUE
    MaxSlots = 2
    MaxOutages = 1
SPECIFICATION FairScheduleSpec
INVARIANTS OncePerSlot
PROPERTIES EverythingFinishes SlotIsServed IsFleetQueue
CHECK_DEADLOCK FALSE
