CONSTANTS
    w1 = w1  w2 = w2  k1 = k1  k2 = k2  i1 = i1  None = None
    Workers = {w1, w2}
    Invoices = {i1}
    Total = 2
    Imported = 1
    MaxRequests = 4
    Failing = {"post", "record", "flip", "remove", "cancel"}
    Clerks = {k1, k2}
SPECIFICATION ControlSpec
SYMMETRY RequestSymmetry
CHECK_DEADLOCK FALSE
INVARIANTS TypeOK SubLedgerAgrees VouchersAccounted ClosedForCause
PROPERTIES ClosedIsFinal
