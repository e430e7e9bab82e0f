SPECIFICATION FairSpec
CONSTANTS
  Accounts = {a}
  None = None
  MaxIndex = 2
  Costs = {1}
  MaxBalance = 2
  Expiries = {0}
  ExpiryWindow = 1
  MaxTip = 0
  ScanWindow = 1
  ScanCeiling = 1
  Deposits = "idle"
  ReorgDepth = 2
  Foreign = FALSE
PROPERTIES
  ReservationsResolve
  RevertedSettlesReturn
