\* Writer lock: the callers of one process share holds; the timer and callers take them
\* again.  Claims: two serve instances, one of which a person may ask for a resume, and a
\* local command.
SPECIFICATION PartsSpec
CONSTANTS
    Caller = {c1, c2}
    MaxFence = 3
    MaxEntries = 2
    Advances = FALSE
    Serve = {a, b}
    Local = {l}
    Asked = {a}
    Silent = {b}
    NoOne = NoOne
    StallsAt = {"save"}
    MaxSuspension = 1
    MaxTries = 1
INVARIANTS PartsTypeOK NoOrphanedHold NoLeakedClaim
PROPERTIES OneShotTakesOnce ContinuedByOne
CHECK_DEADLOCK FALSE
