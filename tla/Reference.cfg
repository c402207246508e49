SPECIFICATION Spec
CONSTANTS
  Universe <- TheUniverse
  VenueOf <- TheVenues
  SessionsOf <- TheSessions
  LastDay = 5
  Market <- TheMarket
  Truths <- TheTruths
  StrayRow <- TheStrays
  MaxHoles = 1
  FillDays = {3, 5}
  One = 10000
  Threshold <- AQuarter
  Omissions = 1
  Lookback = 2
  Slack = 1
  FloorOf <- TheFloors
  Starts = {3, 4}
  SectorFiles <- TheSectorFiles
  Forever = 4
  Audited <- ListedNames
  Unlisted = "ZZZ"
  VenueHeld <- TheVenueHeld
  Calendar <- TheCalendar
  BarTicks = 2
  Asked <- TheAsked
  MaxEdits = 2
  Samples <- TheUniverse
  Span = 3
  FirstTick = 4
  LastTick = 6
CHECK_DEADLOCK FALSE
INVARIANTS
  AdjustedPathIsTheMarkets
  FileIsOneWholePass
  AnswersAreOfTheirDay
  CleanIsWhole
  SamplesAreKept
PROPERTIES
  ReadIsPointInTime
  ScanFindsSeamsAndNews
  RowsComeFromTheirPast
