SPECIFICATION Spec
CONSTANTS
  None = None
  Dirs = {d1, d2}
  Password = "pw"
  Typo = "typo"
  Master <- MCMaster
  Offered <- MCOffered
  Digest = Digest
  Figures <- MCFigures
  Crowds = {0, 65534}
  MaxPosition = 2
  MaxOpens = 3
  MaxSeals = 3
SYMMETRY MCSymmetry
INVARIANTS
  NonceSealsOneImage
  WrittenImagesReadBack
  BlocksAreAsReserved
  RefusalNamesARealAccount
  AccountsReachTheirOwnKeys
