CONSTANTS
  N = 2
  BatchSize = 2
  UsedAccounts <- MCAccounts
  UsedOps <- MCOps
  Quotas <- MCQuotas
  MaxRetries = 1
SPECIFICATION ApiSpec
INVARIANTS VerdictIsTrue NothingSentAfterCancel
PROPERTIES ShutdownEnds
CHECK_DEADLOCK FALSE
