SPECIFICATION Spec
CONSTANTS
  a = a
  b = b
  Tags <- TwoTags
  None = None
  MaxIndex = 3
  Window = 1
  Ceiling = 1
  StartIndexes = {0, 1}
INVARIANTS
  StopWritesNothing
  NoAdvanceBesideASecondWallet
  AdvanceIsAcknowledged
  ScopeIsSearchedOnce
