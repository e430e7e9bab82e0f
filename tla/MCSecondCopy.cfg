SPECIFICATION Spec
CONSTANTS
  Accounts = {a, b}
  None = None
  MaxIndex = 2
  Costs = {1}
  MaxBalance = 1
  Expiries = {0}
  ExpiryWindow = 1
  MaxTip = 0
  ScanWindow = 1
  ScanCeiling = 1
  Deposits = "idle"
  ReorgDepth = 0
  Foreign = TRUE
INVARIANTS
  NoKeyIsAbandoned
PROPERTIES
  SignaturesPassTheGate
