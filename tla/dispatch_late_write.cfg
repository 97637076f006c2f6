SPECIFICATION Spec
CONSTANTS
    s1 = s1
    s2 = s2
    w1 = w1
    w2 = w2
    Step = {s1, s2}
    Worker = {w1, w2}
    Workload <- Workloads
    Capacity = 1
    NoOne = NoOne
    LateWrites = TRUE
    MaxWrites = 2
    Parallel = FALSE
    Cancellable = {s1}
    Faulty = {s1}
    MaxChanges = 1
INVARIANTS WrittenNeverRunsAgain
CHECK_DEADLOCK FALSE
