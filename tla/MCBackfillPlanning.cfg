SPECIFICATION PlanningSpec
CONSTANTS
    aapl = aapl
    msft = msft
    NoLimit = NoLimit
    Symbols <- MCSymbols
    Rank <- MCRank
    Days <- MCDays
    Trades <- MCTrades
    SessionTicks <- MCSessionTicks
    DayTicks = 4
    Interval = 1
    WindowDays = 2
    Limit = 2
CHECK_DEADLOCK FALSE
INVARIANTS
  EachShortSessionInOneWindow
  QueueIsInOrder
