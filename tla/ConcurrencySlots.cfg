\* Three instances with one request each, limit 1, one place in each queue, one failure or death, one client that goes.
SPECIFICATION Spec
CONSTANTS
    Processes = {p1, p2, p3}
    Lanes = {l1}
    Limit = 1
    MaxWait = 1
    MaxFaults = 1
    MaxCancels = 1
SYMMETRY Symmetry
INVARIANTS TypeOK SlotsWithinLimit SlotsNotLost WaitersBounded NoPhantomWaiters
