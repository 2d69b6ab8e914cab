CONSTANTS
    PWM_PERIOD = 4200
    Moves <- MCMoves
    GyroTrims <- MCGyro
    TransTrims <- MCTrans
    IO_FREQ = 2
    InCap = 1
    OutCap = 1
    ThetaReply <- MCTwo
    RpmReply <- MCOne
    Headings <- MCOpposite
    Rates <- MCRates
SPECIFICATION Spec
INVARIANTS TypeOK SpinsAsCommanded DivergeOnlyBetweenWrites FailsafeHolds
PROPERTIES SpeedRaisedLast ImplementsAtomicControl
