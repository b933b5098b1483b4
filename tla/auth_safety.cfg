CONSTANTS
    Users = {u1}
    Tokens = {t1, t2, t3}
    Workers = {w1, w2, w3}
    None = None
    MaxFailed = 2
    Lockout = 1
    Lifetime = 1
    DbFailures = TRUE
SYMMETRY Symmetric
VIEW WithoutOutcome
SPECIFICATION Spec
INVARIANTS
    TypeOK
    OneLiveTokenPerFamily
    LiveTokenOwnerActive
    LockoutMatchesCount
PROPERTIES
    ReuseRevokesFamily
    LogoutRecordedOnce
    EveryFailureCounts
    LoginOnUnlockedAccount
