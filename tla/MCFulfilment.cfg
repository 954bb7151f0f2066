SPECIFICATION FSpec
CONSTANTS
    l1 = l1
    h1 = h1
    h2 = h2
    Null = Null
    Listings <- MCListings
    Supply <- MCSupply
    ByWeight = {}
    Qassobs <- NoQassobs
    Handlers <- TwoHandlers
    MaxOrders = 2
    Quantities = {2}
    Fees = {7}
    MinOrderKg = 2
    PageSize = 1
    Live <- MCListings
SYMMETRY Symmetry
INVARIANTS
    CompletedWasDispatched
    PaidIffDelivered
    BoardsAgree
PROPERTIES
    CancelledBeforeDispatchStays
    SettledIsFinal
    OnlyStaleCopiesUndo
    OnlyRevivalBreaksTheBooks
CHECK_DEADLOCK FALSE
