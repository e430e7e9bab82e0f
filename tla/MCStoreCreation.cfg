SPECIFICATION Spec
CONSTANTS
  Processes = {p1, p2}
  Nobody = nobody
  Phrases = {v, w}
  NotHeld = none
  MaxAccount = 1
  MaxIndex = 1
INVARIANTS
  AccountsAreRecoverable
  RestoredFromTheLedger
PROPERTIES
  StoreOnlyGrows
