\* Two administrators, two operations, seven ticks and one failure.
SPECIFICATION Spec
CONSTANTS
    LockKey = k1
    NoFingerprint = NoFingerprint
    Keys = {k1}
    Fingerprints = {f1, f2}
    Workers = {w1, w2}
    TTL = 5
    Lease = 3
    RenewInterval = 1
    MaxClock = 7
    MaxFaults = 1
SYMMETRY Symmetry
CHECK_DEADLOCK FALSE
INVARIANTS TypeOK FreshLockExclusive ReleasedOrLeased
