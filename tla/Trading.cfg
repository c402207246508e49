SPECIFICATION Spec
CONSTANTS
  OpeningWindows = {1, 2}
  RangeMemory = 1
  MoveMemory = 1
  VolumeMemory = 1
  Scale = 100
  Rules <- TheRules
  Universe <- OneSymbol
  Overnight = {"AAA"}
  Days <- ThreeDays
  Shapes <- TheShapes
  StrayShapes <- TheStrays
  Markets <- TheMarkets
  Horizon = 7
CHECK_DEADLOCK FALSE
INVARIANTS
  LevelsAreTheSession
  ProposalsAreOfTheirSession
  StopsAreOfTheirTrade
