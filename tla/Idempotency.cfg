\* One key, two payloads, two requests, five ticks and two failures.
SPECIFICATION Spec
CONSTANTS
    NoKey = NoKey
    NoFingerprint = NoFingerprint
    Keys = {k1}
    Fingerprints = {f1, f2}
    Workers = {w1, w2}
    TTL = 2
    Lease = 1
    Backoff = 1
    MaxClock = 5
    MaxFaults = 2
SYMMETRY Symmetry
CHECK_DEADLOCK FALSE
INVARIANTS TypeOK ExecutionsExclusive StoredIsOwn
PROPERTY PromiseKept
