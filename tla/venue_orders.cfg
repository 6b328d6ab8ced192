CONSTANTS
  o1 = o1
  o2 = o2
  Oids <- MCOids
  Singles <- MCSingles
  BatchOf <- MCBatchOf
  TicketsOf <- MCTicketsOf
  UsedAccounts <- MCAccounts
  CreateOps <- MCCreates
  RequestOps <- MCRequests
  QueueMax = 1
  MaxRequests = 1
  Worked <- MCWorked
  Lossy = TRUE
  ContractSize <- MCSize
SPECIFICATION Spec
INVARIANTS VerdictIsItsOwn ReportedAsAsked EveryRequestReachesItsOrder EveryOrderIsSettled
CHECK_DEADLOCK FALSE
