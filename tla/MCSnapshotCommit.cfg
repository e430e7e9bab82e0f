\* Two processes that may die at any step, and power cuts.
SPECIFICATION Spec
CONSTANTS
  Processes = {p1, p2}
  Nobody = nobody
  Changes = {a, b}
  MaxLength = 2
PROPERTIES
  ImplementsDurableStore
  KillsKeepSigned
