\* Two products with room for one unit each, three units of funds, one of them
\* the reserve: one stake order of each product, or two of one, may be open.
CONSTANTS
    MaxAge = 1
    MaxSkew = 0
    Products = {p1, p2}
    p1 = p1
    p2 = p2
    Prompt = {p1}
    Funds = 3
    Reserve = 1
    Cap = 1
    Floor = 1
    MaxStakes = 2
    MaxDecisions = 2
    MaxFaults = 1
SPECIFICATION Spec
INVARIANTS
    YieldTypeOK
    CapKept
    ReserveKeptUnlessSlid
PROPERTIES
    OneCycleStakes
    ExitsEnd
