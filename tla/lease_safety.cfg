SPECIFICATION Spec
CONSTANTS
  Proc = {p1, p2}
  Serve = {p1}
  NoOne = NoOne
  MaxFence = 4
  MaxCommits = 2
  MaxWork = 4
  Faults = {"renew", "raise"}
CONSTRAINT WorkBound
CHECK_DEADLOCK FALSE
INVARIANTS
  TypeOK
  OneWinnerPerFence
  PreviousFenceKept
  NoFenceLeaked
PROPERTIES
  ImplementsFencedLog
  HighestFenceStays
