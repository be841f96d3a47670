\* One order of two units, one worker, two administrators, three failures or deleted codes.
SPECIFICATION RefundSpec
CONSTANTS
    NoOrder = NoOrder
    Orders = {o1}
    Workers = {w1}
    Admins = {a1, a2}
    Amount = 2
    MaxSpend = 1
    MaxPending = 1
    FaultKinds = {"read", "lost", "provider", "crash", "audit", "delete"}
    MaxFaults = 3
SYMMETRY AdminSymmetry
CHECK_DEADLOCK FALSE
INVARIANTS RefundTypeOK RefundExclusive DeductedOnce FailedRefundRestores ReturnedIsFinal
