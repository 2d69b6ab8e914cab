CONSTANTS
    TimeMod = 40
    LOOP_DELAY = 3
    MaxElapsed = 3
SPECIFICATION Spec
INVARIANTS TypeOK OnSchedule
PROPERTY CyclesGoOn
