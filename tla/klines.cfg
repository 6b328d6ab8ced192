SPECIFICATION KlinesSpec
CONSTANTS
  Prices = {1, 2}
  Sizes = {1, 4, 8}
  Threshold = 3
  MaxTime = 3
  MaxTrades = 3
INVARIANTS BarsAreFull AggregatorsAgree
CHECK_DEADLOCK FALSE
