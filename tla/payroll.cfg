SPECIFICATION Spec
CONSTANTS
    Payments = {p1, p2}
    Workers = {w1, w2}
    Nets <- MCNets
    Amounts <- MCAmounts
    MaxVersion = 2
    None = None
SYMMETRY Symmetric
INVARIANT TypeOK
INVARIANT PaidPaymentsMark
PROPERTY MarkedWithinNet
