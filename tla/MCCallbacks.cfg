SPECIFICATION FairSpec
CONSTANTS
    o1 = o1
    h1 = h1
    h2 = h2
    CardTx = CardTx
    Null = Null
    OrderIds <- OneOrder
    Handlers <- TwoHandlers
    MaxLinks = 2
PROPERTIES
    AnsweredOrSuperseded
CHECK_DEADLOCK FALSE
