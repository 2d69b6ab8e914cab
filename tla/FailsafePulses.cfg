CONSTANTS
    PWM_PERIOD = 4200
    Moves <- MCSteer
    GyroTrims <- MCNone
    TransTrims <- MCNone
    IO_FREQ = 2
    InCap = 1
    OutCap = 1
    ThetaReply <- MCOne
    RpmReply <- MCOne
    Headings <- MCTwoHeadings
    Rates <- MCStill
SPECIFICATION Spec
PROPERTY FailsafeStopsMotors
