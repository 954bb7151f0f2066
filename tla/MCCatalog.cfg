SPECIFICATION CSpec
CONSTANTS
    l1 = l1
    q1 = q1
    e1 = e1
    e2 = e2
    Null = Null
    Listings <- MCListings
    Supply <- MCSupply
    ByWeight = {}
    Qassobs <- MCQassobs
    Editors <- MCEditors
    StockLevels = {1}
    MaxOrders = 2
    Quantities = {1, 2}
    Fees = {7}
    MinOrderKg = 2
SYMMETRY Symmetry
INVARIANTS
    OrdersKeepTheirListing
PROPERTIES
    OrdersDoNotUnarchive
    OnlyPatchBreaksTheBooks
CHECK_DEADLOCK FALSE
