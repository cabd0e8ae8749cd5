\* A position of one perp step, any two interferences of the world.
CONSTANTS
    PerpStep = 2
    SpotMin = 2
    FeeMax = 1
    Quantity = 2
    DriftPct = 30
    UnreadableExit = 2
    Deposit = 2
    MaxPending = 1
    MaxFaults = 2
SPECIFICATION Spec
INVARIANTS
    CycleTypeOK
    PositionIsHedged
    LostHedgeKept
    ForeignSoldOnlyBlind
