SPECIFICATION Spec
CONSTANTS
  None = none
  Base = 3
  MaxDestinations = 2
  MFEE = 1
  ReferenceLen = 4
  Tags = {0, 1, 2, 3}
  Amounts = {0, 1, 3, 8}
  Fees = {0, 1, 2}
  Balances = {0, 2, 8}
  BlocksToLive = {0, 1}
  References <- MCReferences
  WOTSW = 4
  WOTSN = 1
INVARIANTS
  PlanAgreesWithNode
  AttachTakesTheRightSignature
  ArtifactReadsBack
  DamagedCopyIsNotAnother
  RetypedSpendIsTheReserved
