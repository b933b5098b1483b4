SPECIFICATION FairSpec
CONSTANTS
    Nodes = {a, b, c}
    w1 = w1
    w2 = w2
    Workers = {w1, w2}
    MaxDeletes = 1
    Serves <- MCServes
    None = None
INVARIANT TypeOK
PROPERTY ForestKept
PROPERTY DeletedHaveNoChildren
PROPERTY RequestsFinish
