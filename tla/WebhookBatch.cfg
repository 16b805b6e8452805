CONSTANTS
    c1 = c1  c2 = c2  h1 = h1  h2 = h2  NoHook = NoHook
    Dispatchers = {c1, c2}
    Hooks = {h1}
    MaxDeliveries = 2
    BatchSize = 2
    MaxAttempts = 2
    Backoff <- LongWait
    Timeout = 1
    Budget = 2
    Slack = 0
    Latency = 0
    Lookup = 1
    Faults = {"error", "lostReply", "crash"}
SPECIFICATION Spec
SYMMETRY CycleSymmetry
CHECK_DEADLOCK FALSE
INVARIANTS TypeOK ClaimsHold FailedWasCharged AttemptsCapped

PROPERTIES BackoffNearlyKept
