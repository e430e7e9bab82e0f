\* One process and power cuts: what a signature was released from.
SPECIFICATION Spec
CONSTANTS
  Processes = {p1}
  Nobody = nobody
  Changes = {a, b}
  MaxLength = 3
INVARIANTS
  SignedIsKept
