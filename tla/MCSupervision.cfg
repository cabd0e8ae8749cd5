\* The carry's supervision in scaled-down time: every interleaving and fault.
CONSTANTS
    MaxAge = 1
    MaxSkew = 1
    RenewAfter = 1
    Window = 1
    HeartbeatTimeout = 1
    CycleTimeout = 1
    Ahead = 0
    OperatorStates = {"NORMAL", "UNWIND"}
    MaxClock = 3
    Escalations = {"none", "blocking", "quiet"}
SPECIFICATION Spec
INVARIANTS
    TypeOK
    EntryIsWarranted
    NormalIsEvidenced
PROPERTIES
    ImplementsWarrant
    StopLostOnlyToRunInFlight
    HoldNeedsOperator
    PromotionSawThisRecord
