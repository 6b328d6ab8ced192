SPECIFICATION Spec
CONSTANTS
  Oids = {o1}
  Symbols = {s1}
  SymbolOf <- OneSymbol
  Malformed = {}
  CreateOps = {"create"}
  CancelOps = {"cancel"}
  CancelAllKind = "each_visible"
  ModifyReports = TRUE
  MaxRequests = 1
  MaxEvictions = 0
  SlowVenue = FALSE
  LossyReplies = FALSE
  LossyFeed = FALSE
INVARIANT
  CancelAllReaches
CHECK_DEADLOCK FALSE
