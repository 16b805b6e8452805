CONSTANTS
    c1 = c1  c2 = c2  h1 = h1  h2 = h2  NoHook = NoHook
    Dispatchers = {c1, c2}
    Hooks = {h1}
    MaxDeliveries = 1
    BatchSize = 2
    MaxAttempts = 2
    Backoff <- OneWait
    Timeout = 1
    Budget = 4
    Slack = 3
    Latency = 1
    Lookup = 1
    Faults = {}
SPECIFICATION Spec
SYMMETRY CycleSymmetry
CHECK_DEADLOCK FALSE
INVARIANTS HooksDeletable
