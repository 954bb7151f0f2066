SPECIFICATION CFairSpec
CONSTANTS
    a = a
    b = b
    Users <- TwoUsers
    Sockets <- TwoSockets
    UserOf <- MCUserOf
    MaxMessages = 2
    MaxCrashes = 1
    HISTORY = 1
INVARIANTS
    NoGapAfterHistory
    TicksAreTrue
PROPERTIES
    SentMessagesArrive
