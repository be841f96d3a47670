\* A poller that also serves requests and a rebuilder; one change and one failing call.
SPECIFICATION Spec
CONSTANTS
    Accounts = {a1}
    Editors = {e1}
    Pollers = {p1}
    Rebuilders = {f1}
    Readers = {p1}
    MaxEvents = 1
    MaxFaults = 1
    None = None
INVARIANTS TypeOK ActiveIsWhole
PROPERTY Converges
CHECK_DEADLOCK FALSE
