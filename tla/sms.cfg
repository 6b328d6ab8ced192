SPECIFICATION SmsFairSpec
CONSTANTS
  t1 = t1
  t2 = t2
  bad = bad
  Topics = {t1, t2, bad}
  Unlisted = {bad}
  Requests <- ShortLists
  PerClient = 1
  MaxClients = 2
  SlowLogin = TRUE
  MaxDrops = 2
  MaxAsks = 3
INVARIANTS
  RegisteredAsAsked
  OpenConnectionServes
  AllowMeansConnected
PROPERTIES
  WantedIsServed
CHECK_DEADLOCK FALSE
