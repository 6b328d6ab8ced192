SPECIFICATION Spec
CONSTANTS
  usdc = usdc
  coin = coin
  opt = opt
  spot = spot
  new = new
  Accounts <- MCAccounts
  ProductOf <- MCProductOf
  ContractSize <- MCContractSize
  Known = {usdc, coin, spot}
  FillSize = 2
  Fee = 1
  Profits = {0, 1}
  MaxSize = 1
  MaxTotal = 3
  MaxWire = 2
  MaxMoves = 2
  MaxRetry = 2
  KeyLife = 1
INVARIANTS PositionsFollowVenue BalancesFollowVenue
CHECK_DEADLOCK FALSE
