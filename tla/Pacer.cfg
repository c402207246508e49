SPECIFICATION FairSpec
CONSTANTS
    MaxRequests = 2
    Window = 3
    Timeout = 2
    Horizon = 13
CHECK_DEADLOCK FALSE
INVARIANTS
  PacingIsTight
  EmptyMeansAnswered
PROPERTIES
  FetchEnds
