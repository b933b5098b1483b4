CONSTANTS
    Users = {u1}
    Tokens = {t1, t2, t3}
    Workers = {w1, w2}
    None = None
    MaxFailed = 1
    Lockout = 1
    Lifetime = 1
    DbFailures = FALSE
SYMMETRY Symmetric
SPECIFICATION Spec
PROPERTIES
    ReuseContained
