SPECIFICATION PSpec
CONSTANTS
    n1 = n1
    n2 = n2
    s1 = s1
    s2 = s2
    MaxUsers = 2
    Numbers = {n1, n2}
    MaxSecrets = 2
    Handlers <- TwoServers
    MaxRows = 2
    MaxCodes = 3
    MaxTime = 5
    RESEND_COOLDOWN = 1
    CODE_TTL = 2
    SESSION_TTL = 3
    HOUR = 4
    MAX_VERIFY_ATTEMPTS = 2
    MAX_SENDS_PER_HOUR = 2
    WorkRoles = {"QASSOB"}
    Servers <- TwoServers
    Admins = {1, 2}
    Owners = {1}
INVARIANTS
    AttemptsAreAgainstTheCode
SYMMETRY PSymmetry
CHECK_DEADLOCK FALSE
