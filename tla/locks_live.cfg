\* Writer lock: fair callers, timer and advances, and other processes that finish.
\* File lock: two processes and four nonces.
SPECIFICATION LocksSpec
CONSTANTS
    Caller = {c1, c2}
    MaxFence = 3
    MaxEntries = 1
    Advances = TRUE
    User = {p1, p2}
    MaxNonce = 4
INVARIANTS FileTypeOK Exclusive NoOrphanFile
PROPERTIES EndedHoldIsReleased LostHoldIsTakenAgain TwoHoldersHeal
CHECK_DEADLOCK FALSE
