\* Four images' worth of commits: each slot is written twice.
SPECIFICATION Spec
CONSTANTS
  Changes = {a, b}
  MaxLength = 4
INVARIANTS
  OpenTakesAnImage
  OldBuildReadsNothingStale
  SignedIsKept
PROPERTIES
  ImplementsDurableStore
