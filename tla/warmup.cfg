SPECIFICATION WarmupSpec
CONSTANTS
  Venues <- MCVenues
  Periods = {1, 3}
  Interval = 2
  PageMax = 2
  BinancePage = 2
  MaxTime = 9
  MaxLive = 3
INVARIANTS HistoryIsWhole LiveIsHandledOnce WarmOnClosedBars
CHECK_DEADLOCK FALSE
