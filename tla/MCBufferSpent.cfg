\* Two symbols, and nothing goes wrong.
CONSTANTS
    Symbols <- MCSymbols
    Cost = 2
    Buffer = 1
    Slack = 0
    MinReturn = 1
    Timeout = 2
    Stock = 6
    MaxLinks = 3
    MaxFaults = 0
SPECIFICATION Spec
INVARIANTS
    BufferStays
