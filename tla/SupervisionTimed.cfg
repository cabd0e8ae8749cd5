\* The carry on a healthy host: one tick is 5 minutes.
CONSTANTS
    MaxAge = 6
    MaxSkew = 1
    RenewAfter = 3
    Window = 6
    HeartbeatTimeout = 1
    CycleTimeout = 1
    HeartbeatPeriod = 1
    CyclePeriod = 1
    Ahead = 2
    MaxClock = 10
    OperatorStates = {"NORMAL", "UNWIND"}
    Escalations = {"none", "blocking", "quiet"}
SPECIFICATION TimedSpec
INVARIANTS
    TimedTypeOK
    NormalNeverLapses
    WaitsEnd
