SPECIFICATION Spec
CONSTANTS
    l1 = l1
    l2 = l2
    q1 = q1
    q2 = q2
    Null = Null
    Listings <- MCListings
    Supply <- MCSupply
    ByWeight <- MCByWeight
    Qassobs <- MCQassobs
    MaxOrders = 3
    Quantities = {1, 2}
    Fees = {7}
    MinOrderKg = 2
    PageSize = 1
    Live <- MCLive
INVARIANTS
    TypeOK
    StockConserved
    OrderableIffInStock
    DispatchedOrdersHaveDelivery
    ClaimedJobsLeftThePool
    BoardsMissNothing
PROPERTIES
    TerminalIsFinal
    ClaimIsFrozen
    ImplementsLedger
CHECK_DEADLOCK FALSE
