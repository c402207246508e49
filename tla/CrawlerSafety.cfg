SPECIFICATION Spec
CONSTANTS
    aapl = aapl
    msft = msft
    gone = gone
    v1 = v1
    v2 = v2
    NoLimit = NoLimit
    Symbols = {aapl, msft, gone}
    Rank <- MCRank
    Days = {1, 2}
    Trades <- HostileTrades
    SessionTicks <- CoarseTicks
    DayTicks = 8
    Interval = 2
    WindowDays = 1
    Limit = 3
    Available <- CoarseAvailable
    Resolvable = {aapl, msft}
    Versions = {v1, v2}
    MaxFailures = 3
    Passes = 2
    MaxCrashes = 1
    MayTear = TRUE
    ReliableFeed = FALSE
INVARIANTS
  TypeOK
  CompleteMeansWhole
  BreakerCountsDistinctSymbols
  ReportIsTrue
PROPERTIES
  DamageIsLoud
