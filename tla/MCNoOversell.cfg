SPECIFICATION FSpec
CONSTANTS
    l1 = l1
    h1 = h1
    h2 = h2
    Null = Null
    Listings <- MCListings
    Supply <- MCSupply
    ByWeight = {}
    Qassobs <- NoQassobs
    Handlers <- OneHandler
    MaxOrders = 2
    Quantities = {2}
    Fees = {7}
    MinOrderKg = 2
    PageSize = 1
    Live <- MCListings
INVARIANTS
    NoOversell
CHECK_DEADLOCK FALSE
