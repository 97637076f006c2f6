\* The last caller leaves while an advance waits for the renewal.
SPECIFICATION Spec
CONSTANTS
  Caller = {c1}
  MaxFence = 2
  MaxEntries = 1
  Advances = TRUE
CHECK_DEADLOCK FALSE
INVARIANTS
  NoOrphanedHold
