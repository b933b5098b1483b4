SPECIFICATION Spec
CONSTANTS
    Users = {a, b}
    Workers = {w1, w2}
    Lifetime = 1
    CheckIns = {570, 571}
    OnTimeUntil = 570
    None = None
SYMMETRY Symmetric
INVARIANT TypeOK
INVARIANT RecordsCoherent
PROPERTY SoleAdminSafe
