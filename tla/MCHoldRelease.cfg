CONSTANTS
    MaxAge = 1
    MaxSkew = 1
    RenewAfter = 1
    Window = 1
    HeartbeatTimeout = 1
    CycleTimeout = 1
    Ahead = 0
    MaxClock = 3
    OperatorStates = {"NORMAL", "UNWIND"}
    Escalations = {"none", "blocking", "quiet"}
SPECIFICATION Spec
PROPERTIES
    HoldReleasedByLaterWrite
