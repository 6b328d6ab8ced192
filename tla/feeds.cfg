SPECIFICATION Spec
CONSTANTS
  Symbols = {s1, s2}
  Accounts <- MCAccounts
  Menus <- MCMenus
  MaxRequests = 3
  BookPrices = {p1, p2}
SYMMETRY Symmetry
INVARIANTS AskedIsFed NoEventWithoutGate ReadyMeansCached LocalBookIsVenues
PROPERTIES KlineRequestsKeepTrades
CHECK_DEADLOCK FALSE
