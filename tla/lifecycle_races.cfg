SPECIFICATION Spec
CONSTANTS
  Oids = {o1}
  Symbols = {s1}
  SymbolOf <- OneSymbol
  Malformed = {}
  CreateOps = {"create", "create_ws"}
  CancelOps = {"cancel", "cancel_ws"}
  CancelAllKind = "native"
  ModifyReports = TRUE
  MaxRequests = 2
  MaxEvictions = 1
  SlowVenue = TRUE
  LossyReplies = TRUE
  LossyFeed = TRUE
INVARIANTS
  RegistryMatchesCache
  OpenSetsMatchOrders
  ClosedIsTrue
  CloseIsLastEvent
  OrphanWasAnnounced
  CloseReachesCache
PROPERTY
  StatusPromise
CHECK_DEADLOCK FALSE
