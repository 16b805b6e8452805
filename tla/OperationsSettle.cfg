CONSTANTS
    r1 = r1  r2 = r2  s1 = s1  s2 = s2  a = a  b = b
    Hand = Hand  None = None
    Runners = {r1, r2}
    Sweepers = {s1}
    Ops = {a, b}
    Matching = {a, b}
    AllowDuplicate = {}
    MaxRuns = 3
    Faults = {"crash"}
SPECIFICATION FairSpec
CHECK_DEADLOCK FALSE
INVARIANTS ClaimHeld PostedOnce RejectedIsClean
PROPERTIES OperationsSettle
