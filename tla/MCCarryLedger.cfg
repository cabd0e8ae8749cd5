\* Two positions over two settlements that pay or charge, at two marks, in a
\* window of both, any fault; the shipped ratio.
CONSTANTS
    Modes = {"live", "paper"}
    Rates <- SignedRates
    Marks = {2, 3}
    Day = 1
    Window = 2
    Ratio = 50
    MaxSettled = 2
    MaxOpened = 2
    MaxFaults = 1
SPECIFICATION Spec
INVARIANTS
    LedgerTypeOK
    FundingIsBookedOnce
    TripIsWhole
PROPERTIES
    AlarmHasCause
