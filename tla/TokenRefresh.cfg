\* Two instances with a loop and a request each, two attempts, two faults.
SPECIFICATION Spec
CONSTANTS
    Instances = {i1, i2}
    MaxRetries = 2
    MaxTokens = 2
    MaxFaults = 2
    NoOne = NoOne
SYMMETRY Symmetry
INVARIANTS TypeOK MarkedIsDead
CHECK_DEADLOCK FALSE
