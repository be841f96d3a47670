\* Three requests, two workers, a queue of one, a credit and two faults.
SPECIFICATION Spec
CONSTANTS
    Requests = {r1, r2, r3}
    Workers = {w1, w2}
    None = None
    Balance = 2
    QueueSize = 1
    Threshold = 1
    HalfOpen = 1
    MaxCredits = 1
    MaxFaults = 2
SYMMETRY Symmetry
CHECK_DEADLOCK FALSE
INVARIANTS TypeOK RightEntryStaysRight HalfOpenHasProbe StopDrains
