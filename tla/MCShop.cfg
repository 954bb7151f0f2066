SPECIFICATION SSpec
CONSTANTS
    Requests = {1, 2, 3}
    MaxNotices = 9
    MaxPhotos = 2
    MaxSuffix = 3
    MAX_RETRIES = 2
    MaxShots = 4
    MaxIds = 3
    c1 = c1
    c2 = c2
    o1 = o1
    o2 = o2
    CardTx = CardTx
    Null = Null
    OrderIds <- TwoOrders
    Handlers <- TwoClients
    MaxLinks = 2
    Clients <- TwoClients
    Editors <- TwoClients
    Phones <- TwoClients
    MaxRows = 3
    Prices = {1, 2, 3}
    MaxSaves = 3
    MaxMarkets = 2
    MaxSlugs = 1
    Posts = {1, 2}
    Sellers = {1}
    MaxCouriers = 2
    Jobs = {1, 2, 3}
    SelfDelivered = {3}
    Dispatchers = {1, 2}
INVARIANTS
    PhotosShowTheirOwn
    LeaksAreExplained
    HistoryIsAChain
    StandingStatusWasTold
    PaidWasCharged
PROPERTIES
    OnlyMishapsLoseTheDefault
    UploadsGoLast
    DefaultAddressHeals
    OnlyMishapsOrphan
    NewJobsFollowWishes
    AnsweredPaymentsAreRecorded
    PaidAndQuietIsFinal
CHECK_DEADLOCK FALSE
