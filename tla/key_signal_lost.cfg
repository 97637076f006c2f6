\* One step that crashes and is resumed while its wait is signalled.
SPECIFICATION Spec
CONSTANTS
    Step = {s1}
    MaxTries = 2
    MaxGen = 2
    MaxRemovals = 0
    Attempts = 2
    MaxWork = 4
    MaxLapsed = 2
SYMMETRY Symmetry
INVARIANTS AcceptedSignalIsRead
CHECK_DEADLOCK FALSE
