\* One order, two workers, two failures of any kind, deletions of the code by an operator included.
SPECIFICATION FairSpec
CONSTANTS
    NoOrder = NoOrder
    Orders = {o1}
    Workers = {w1, w2}
    MaxPending = 1
    FaultKinds = {"read", "lost", "unknown", "redis", "provider", "crash", "delete"}
    MaxFaults = 2
CHECK_DEADLOCK FALSE
INVARIANTS TypeOK Consistent FulfilmentExclusive CreditedOnce CompletedIsGranted GrantedIsCaptured
PROPERTIES PaidIsKept CapturedIsGranted
