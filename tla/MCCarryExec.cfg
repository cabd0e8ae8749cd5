\* One symbol, a position of two perp steps, two orders a leg.
CONSTANTS
    PerpStep = 2
    SpotMin = 2
    FeeMax = 1
    Quantity = 4
    Foreign = 2
    MaxOrders = 2
SPECIFICATION Spec
INVARIANTS
    ExecTypeOK
    EndsHedged
    TradesWithinPlan
    BookTells
PROPERTIES
    RunEnds
CHECK_DEADLOCK FALSE
