CONSTANTS
    a = a
    b = b
    none = none
    Stale <- MCStale
    Received <- MCOne
    Written <- MCOne
    InSize = 2
    OutSize = 1
SPECIFICATION Spec
PROPERTY LossIsFlagged
