SPECIFICATION OutletsSpec
CONSTANTS
    Rcpts = {"a", "b"}
    Probed = "p"
    TopDomain <- OneDomain
    MaxRecipients = 2
    Period = 0
    VerpInterval = 0
    VerpPersonalized = TRUE
    ProcessBounces = TRUE
    Slices = {"b0", "b1"}
    Bouncing = {"p"}
    Archivers <- MCArchivers
    ArchivePublic = TRUE
    MailAddress = "a"
    MaxFaults = 1
    MaxReturns = 2
INVARIANTS NothingTwice OutletsServed
PROPERTIES KeepsPromise DeliveryEnds
CHECK_DEADLOCK FALSE
