SPECIFICATION Spec
CONSTANTS
  Symbols <- StockAndIndex
  Sessions <- ThreeDays
  Lookbacks = {1, 2}
  Trailing = 1
  BetaMemory = 1
  Benchmark <- AgainstIndex
  Strategies <- Two
  WantSection = {"reversal"}
  Start = 2
  End = 6
  Warmup = 1
  Extras = 2
CHECK_DEADLOCK FALSE
INVARIANTS
  DigestIsTheRunInOrder
  ViewsAreOfThePast
