CONSTANTS
    w1 = w1  w2 = w2  p1 = p1  p2 = p2
    Workers = {w1, w2}
    ServiceWorkers = {}
    Periods = {p1}
    FirstPeriod = p1
    Seeds = 1
    Lockable = {p1}
    Ops = {"create","reverse","correct"}
    Committable = {"correction"}
    Faults = {"error","lostReply"}
    MaxJobs = 2
SPECIFICATION Spec
SYMMETRY WorkerSymmetry
CHECK_DEADLOCK FALSE
INVARIANTS TypeOK HeldNumberFresh PostedKeepsLines
PROPERTIES LedgerFrozen BookedIsFinal
