SPECIFICATION FairSpec
CONSTANTS
  Orders = {o1, o2}
  Placed = {o2}
  Keys = {k1}
  Values = {v1}
  Unset = Unset
  SyncMayFail = TRUE
  MaxStarts = 2
INVARIANTS
  GetOrderIsCurrent
  StopSavesEverything
PROPERTY
  SavedInTheEnd
CHECK_DEADLOCK FALSE
