CONSTANTS
    PWM_PERIOD = 4200
    Moves <- MCLive
    GyroTrims <- MCNone
    TransTrims <- MCNone
    IO_FREQ = 2
    InCap = 2
    OutCap = 1
    ThetaReply <- MCOne
    RpmReply <- MCOne
    Headings <- MCTwoHeadings
    Rates <- MCStill
SPECIFICATION LonelySpec
PROPERTIES SilenceStopsIfServed StopTakesEffect MotorsReagree MotorsComeToRest
