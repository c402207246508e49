SPECIFICATION Spec
CONSTANTS
  Orders = {o1, o2}
  Buys = {o1}
  Size = 2
  MaxTries = 2
  MaxDrops = 1
INVARIANTS
  LogAccountsForTheVenue
  OrderIsRecordedBeforeItsFills
  LiveVenueNeedsPermission
CHECK_DEADLOCK FALSE
