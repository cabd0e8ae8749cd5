\* A position of two perp steps (partial fills, trims), no interference, UNWIND.
CONSTANTS
    PerpStep = 2
    SpotMin = 2
    FeeMax = 1
    Quantity = 4
    DriftPct = 30
    UnreadableExit = 2
    Deposit = 2
    MaxPending = 1
    MaxFaults = 0
SPECIFICATION CalmSpec
PROPERTIES
    StopEndsFlat
