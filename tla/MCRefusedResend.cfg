\* One symbol, a position of one perp step, two orders a leg.
CONSTANTS
    PerpStep = 2
    SpotMin = 2
    FeeMax = 1
    Quantity = 2
    Foreign = 2
    MaxOrders = 2
SPECIFICATION Spec
INVARIANT
    EntryLeavesNoShort
CHECK_DEADLOCK FALSE
