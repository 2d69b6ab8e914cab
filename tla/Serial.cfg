CONSTANTS
    a = a
    b = b
    none = none
    Stale <- MCStale
    Received <- MCTwo
    Written <- MCTwo
    InSize = 1
    OutSize = 2
SPECIFICATION FairSpec
INVARIANTS OutputArmed WaitsForCause
PROPERTIES ImplementsLink NoInterruptStorm WriterGoesOn
