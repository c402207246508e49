SPECIFICATION Spec
CONSTANTS
    aapl = aapl
    msft = msft
    gone = gone
    v1 = v1
    v2 = v2
    NoLimit = NoLimit
    Symbols = {aapl}
    Rank <- MCRank
    Days = {1}
    Trades <- EveryDay
    SessionTicks <- HostileTicks
    DayTicks = 4
    Interval = 1
    WindowDays = 1
    Limit = NoLimit
    Available <- HostileAvailable
    Resolvable = {aapl}
    Versions = {v1}
    MaxFailures = 5
    Passes = 1
    MaxCrashes = 1
    MayTear = TRUE
    ReliableFeed = FALSE
PROPERTIES
    KillingLosesNothing
