SPECIFICATION Spec
CONSTANTS
    Services = {s1, s2}
    Categories = {c1, c2}
    SubCategories = {b1}
    Levels = {l1}
    Positions = {p1}
    Employees = {e1}
    Workers = {w1}
    None = None
    Same = Same
SYMMETRY Symmetric
INVARIANT TypeOK
PROPERTY PositionsFollow
PROPERTY DeletionsTakeNothing
CHECK_DEADLOCK FALSE
