SPECIFICATION FairSpec
CONSTANTS
    Emails = {e1}
    Usernames = {u1, u2}
    Codes = {c1, c2}
    Workers = {w1, w2}
    None = None
    MaxAttempts = 2
    MaxResends = 1
    TTL = 3
    MinTimeout = 2
    Cooldown = 1
INVARIANT TypeOK
INVARIANT LimitsHold
PROPERTY AccountNeedsItsCode
PROPERTY PendingEnds
