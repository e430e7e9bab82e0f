SPECIFICATION Spec
CONSTANTS
  Accounts = {a}
  None = None
  MaxIndex = 2
  Costs = {1, 2}
  MaxBalance = 2
  Expiries = {0, 1, 2}
  ExpiryWindow = 1
  MaxTip = 2
  ScanWindow = 1
  ScanCeiling = 1
  Deposits = "any"
  ReorgDepth = 3
  Foreign = FALSE
INVARIANTS
  TypeOK
  OneDigestPerKey
  SignedKeysAreBehindDisk
  SignatureIsUnderItsSource
  BlocksAgreeWithIndex
  NoSignedSpendForgotten
PROPERTIES
  ReservationLeavesByLanding
