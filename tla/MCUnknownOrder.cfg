\* An order of unknown fate stays in the journal.
CONSTANTS
    PerpStep = 2
    SpotMin = 2
    FeeMax = 1
    Quantity = 2
    DriftPct = 30
    UnreadableExit = 2
    Deposit = 2
    MaxPending = 1
    MaxFaults = 1
SPECIFICATION Spec
PROPERTIES UnknownOrderStays
