SPECIFICATION Spec
CONSTANTS
  ReturnPlaces = 100
  Tick = 1
  Cent = 100
  Dollar = 10000
  Quantity = 2
  Universe <- TheSymbols
  Corpora <- TheCorpora
  Requests <- TheRequests
  Models <- TheModels
  CV <- TheCV
  PboBlocks = 4
  DayTicks = 4
  RegimeMemory = 1
  MinTrades = 1
  CommandTicks = 10
CHECK_DEADLOCK FALSE
INVARIANTS
  LabelsAreOfTheHolding
  OneSetOfTrades
  SplitsDoNotLeak
  PboMeasuresTheRanking
  VerdictChargesTheWholeSearch
