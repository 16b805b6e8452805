CONSTANTS
    w1 = w1  w2 = w2  p1 = p1  p2 = p2
    Workers = {w1, w2}
    ServiceWorkers = {}
    Periods = {p1, p2}
    FirstPeriod = p1
    Seeds = 1
    Lockable = {}
    Ops = {"reverse", "correct"}
    Committable = {"regular"}
    Faults = {"crash"}
    MaxJobs = 2
SPECIFICATION DeletionSpec
SYMMETRY WorkerSymmetry
CHECK_DEADLOCK FALSE
INVARIANTS ReversalStands LinksResolve
