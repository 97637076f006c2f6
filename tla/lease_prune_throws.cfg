\* The listing of #prune throws.
SPECIFICATION Spec
CONSTANTS
  Proc = {p1, p2}
  Serve = {p1}
  NoOne = NoOne
  MaxFence = 3
  MaxCommits = 0
  Faults = {"prune"}
CHECK_DEADLOCK FALSE
INVARIANTS
  NoFenceLeaked
