CONSTANTS
    TimeMod = 16
    LOOP_DELAY = 1
    MaxElapsed = 2
SPECIFICATION Spec
INVARIANT WakesOnArrival
