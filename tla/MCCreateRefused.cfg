\* One process: what a refused create leaves in the directory.
SPECIFICATION Spec
CONSTANTS
  Processes = {p1}
  Nobody = nobody
  Phrases = {v}
  NotHeld = none
  MaxAccount = 0
  MaxIndex = 0
INVARIANTS
  RefusalLeavesNothing
