\* One order, two workers, one write that is not applied.
SPECIFICATION Spec
CONSTANTS
    NoOrder = NoOrder
    Orders = {o1}
    Workers = {w1, w2}
    MaxPending = 1
    FaultKinds = {"lost"}
    MaxFaults = 1
SYMMETRY WorkerSymmetry
CHECK_DEADLOCK FALSE
INVARIANT ExtendedOnce
