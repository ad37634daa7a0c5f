SPECIFICATION FairSpec
CONSTANTS
    PidPeriod = 2
    StopDelay = 2
    JogPause = 1
    JogTime = 2
    RampDelay = 2
    BeepTime = 2
    PidOutputs <- SomeOutputs
    Commands = {"s", "b", "u", "o", "t", "w", "l", "jog1", "jog2r"}
    MaxInbox = 1
    Clock = 200
    MicroSteps = 400
    Gaps = {20, 40, 60}
INVARIANTS
    TypeOK
    NeverBothTurn
    StopMeansStopped
    LoopDrivesActiveMotor
    OneWriterOfRates
    RegistersFit
    StepsFollowCommand
PROPERTIES
    SoftStartHandsOver
    StopIsObeyed
