CONSTANTS
    idle = idle
    low = low
    mid = mid
    high = high
    top = top
    none = none
    Quantum = 1
    Threads <- MCThreads
    Idle <- MCIdle
    None <- MCNone
    Buses <- MCBuses
    Uses <- MCUses
    ABSPRIO = 4
    RealPrios <- MCRealPrios
SPECIFICATION Spec
INVARIANTS TypeOK CurrentIsHighest QueuesOrdered InheritsExactly ExchangeIsOwners
PROPERTIES UrgentGetsBus UrgentTakeTurns
