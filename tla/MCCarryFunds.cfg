\* Two symbols, an entry twice the buffer, USDT for both and a redeem in vain, any two faults.
CONSTANTS
    Symbols <- MCSymbols
    Cost = 2
    Buffer = 1
    Slack = 0
    MinReturn = 1
    Timeout = 2
    Stock = 6
    MaxLinks = 3
    MaxFaults = 2
SPECIFICATION Spec
INVARIANTS
    FundsTypeOK
    FundsKept
PROPERTIES
    IdleReturns
