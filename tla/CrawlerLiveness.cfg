SPECIFICATION FairSpec
CONSTANTS
    aapl = aapl
    msft = msft
    gone = gone
    v1 = v1
    v2 = v2
    NoLimit = NoLimit
    Symbols = {aapl, msft, gone}
    Rank <- MCRank
    Days = {1, 2}
    Trades <- EveryDay
    SessionTicks <- HostileTicks
    DayTicks = 4
    Interval = 1
    WindowDays = 2
    Limit = NoLimit
    Available <- HaltedDay
    Resolvable = {aapl, msft}
    Versions = {v1, v2}
    MaxFailures = 2
    Passes = 2
    MaxCrashes = 1
    MayTear = FALSE
    ReliableFeed = FALSE
PROPERTIES
    EveryFillableSessionFills
    CommandEnds
    ImplementsCorpus
