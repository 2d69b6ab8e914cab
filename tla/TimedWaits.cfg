CONSTANTS
    idle = idle
    io = io
    main = main
    other = other
    Threads <- MCThreads
    Idle <- MCIdle
    Timers <- MCTimers
    Prio <- MCPrio
    Timeouts <- MCTimeouts
    TimeMod = 5
    Quantum = 1
    Capacity = 2
SPECIFICATION Spec
INVARIANTS ListWellFormed NoLostWakeup TimerMatchesWait
PROPERTIES ImplementsTimerService VerdictStands WaitsEnd
