SPECIFICATION Spec
CONSTANTS
    d1 = d1
    d2 = d2
    own = own
    u1 = u1
    Databases = {d1, d2}
    Logins = {own, u1}
    OwnLogin = own
    Backups <- MCBackups
    Baskets <- MCBaskets
    MaxRestores = 2
    MaxOutside = 3
PROPERTIES
    OthersUntouched
    GrantsAreConfined
    SandboxIsGone
CHECK_DEADLOCK FALSE
