CONSTANTS
    Readings = 5
    Settle = 1
    Rest <- MCRest
    Transient <- MCTransient
    Errors <- MCErrors
    ReadTicks <- MCTicks
    Undefined <- MCUndefined
    DiagLen = 3
    OutCap = 2
    Throttles = {0, 1}
SPECIFICATION BootSpec
INVARIANTS BiasWithinMeasured CalibratesAtRest ModeStands
PROPERTY ReachesLoop
