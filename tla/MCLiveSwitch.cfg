\* A cap of two units and a round trip of one; two commands of the operator
\* (enable, disable), two faults in any order.
CONSTANTS
    MaxCap = 2
    TripSize = 1
    MaxAsked = 2
    MaxFaults = 2
SPECIFICATION LiveSpec
INVARIANTS
    LiveTypeOK
    UnwatchedOnlyBlind
PROPERTIES
    OpenedUnderSwitch
    HandsOverFlat
    CodeOnce
