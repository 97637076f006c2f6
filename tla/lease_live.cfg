\* A lease nobody renews any more is taken over.
SPECIFICATION LiveSpec
CONSTANTS
  Proc = {p1, p2}
  Serve = {p1}
  NoOne = NoOne
  MaxFence = 3
  MaxCommits = 0
  Faults = {"mark", "prune"}
CHECK_DEADLOCK FALSE
PROPERTIES
  AbandonedLeaseIsTaken
