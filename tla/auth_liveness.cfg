CONSTANTS
    Users = {u1}
    Tokens = {t1, t2}
    Workers = {w1, w2}
    None = None
    MaxFailed = 1
    Lockout = 2
    Lifetime = 1
    DbFailures = FALSE
SPECIFICATION FairSpec
PROPERTIES
    RequestsFinish
    ImplementsFamilies
    LockoutEnds
