SPECIFICATION BookSpec
CONSTANTS
  Prices = {1, 2, 4}
  Sizes = {1, 2, 3}
  Fees = {0, 1}
  Marks = {1, 3}
  MaxFills = 4
CHECK_DEADLOCK FALSE
INVARIANTS
  BooksBalance
  CostBasisWithinEntries
