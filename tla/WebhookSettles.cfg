CONSTANTS
    c1 = c1  c2 = c2  h1 = h1  h2 = h2  NoHook = NoHook
    Dispatchers = {c1, c2}
    Hooks = {h1}
    MaxDeliveries = 1
    BatchSize = 2
    MaxAttempts = 2
    Backoff <- OneWait
    Timeout = 1
    Budget = 4
    Slack = 6
    Latency = 1
    Lookup = 1
    Faults = {"crash"}
SPECIFICATION FairSpec
CHECK_DEADLOCK FALSE
PROPERTIES DeliveriesSettle
INVARIANTS DeadForCause ClaimsHold
