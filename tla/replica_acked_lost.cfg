\* A sync may answer no_change with the txid of the sync before it.
SPECIFICATION ReplSpec
CONSTANTS
    Checkout = {a, b}
    Serving = {}
    LastFence = 3
    LastCommit = 2
    LastTxid = 2
    LastFailure = 1
    Cases = {"no_change"}
INVARIANT AckedSurvives
CHECK_DEADLOCK FALSE
