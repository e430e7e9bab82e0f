CONSTANTS
  None = None
  Absent = Absent
  Typed <- TypedValue
  ReadUnits = 2
  Forks = {f, g}
  Ids = {x, y, z}
  MaxTip = 2
  MaxTo = 2
  MaxMoves = 2
  MAX_COUNT = 2
  DISCOVER_MAX_TO = 2
  Accounts <- AccountsValue
  Disks <- DisksValue
  Flags <- FlagsValue
  MaxFlags = 3
  PASSWORD <- PasswordValue
  f = f
  g = g
  x = x
  y = y
  z = z
SYMMETRY ForkSymmetry
SPECIFICATION Spec
INVARIANTS
  AnswersAreTypedAsAsked
  LineIsWhatWasTyped
  PagesAreWhole
  PagingSkipsNone
  PageTellsTheRun
  DivergedAreNamed
