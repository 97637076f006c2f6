\* Two steps, with three executions and removals between them; three generations of the
\* key; two deadlines or graces that pass.  Two checkouts, one of which serves, three
\* leases and two commits, or two leases, one commit and a failed sync.
SPECIFICATION PartsSpec
CONSTANTS
    Step = {s1, s2}
    MaxTries = 2
    MaxGen = 3
    MaxRemovals = 2
    Attempts = 2
    MaxWork = 3
    MaxLapsed = 2
    Checkout = {a, b}
    Serving = {a}
    LastFence = 3
    LastCommit = 2
    LastTxid = 2
    LastFailure = 1
    Cases = {}
    MaxSyncWork = 2
CONSTRAINT PartsBound
SYMMETRY Symmetry
INVARIANTS PartsTypeOK OneOpenWait SignalBeforeDeadlineIsRead OpenWaitHoldsKey AckedSurvives
    FeedBoundIsAcked
PROPERTIES HighestStays ImplementsKeyedWait ImplementsDurableLog
CHECK_DEADLOCK FALSE
