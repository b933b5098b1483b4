SPECIFICATION Spec
CONSTANTS
    Employees = {e}
    Organizations = {o1, o2}
    Statuses = {"IN_SERVICE", "RETIRED"}
    w1 = w1
    w2 = w2
    Workers = {w1, w2}
    MaxVersion = 3
    Serves <- MCServes
    None = None
SYMMETRY Symmetric
INVARIANT TypeOK
INVARIANT StatusHistoryIsPath
PROPERTY MovesRecorded
PROPERTY ImplementsCareers
PROPERTY DeletedStay
PROPERTY DeletedHeadNothing
