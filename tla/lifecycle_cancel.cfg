SPECIFICATION FairSpec
CONSTANTS
  Oids = {o1, o2}
  Symbols = {s1}
  SymbolOf <- OneSymbol
  Malformed = {o2}
  CreateOps = {"create"}
  CancelOps = {"cancel"}
  CancelAllKind = "each_open"
  ModifyReports = TRUE
  MaxRequests = 2
  MaxEvictions = 0
  SlowVenue = FALSE
  LossyReplies = TRUE
  LossyFeed = FALSE
INVARIANTS HiddenIsBeingCanceled CancelAllReaches
PROPERTIES
  EveryOrderIsAnswered
  FillIsSeen
CHECK_DEADLOCK FALSE
