\* Two changes whose events overlap, one worker that polls and rebuilds, one failing call.
SPECIFICATION Spec
CONSTANTS
    Accounts = {a1}
    Editors = {e1, e2}
    Pollers = {p1}
    Rebuilders = {p1}
    Readers = {}
    MaxEvents = 2
    MaxFaults = 1
    None = None
PROPERTY Converges
CHECK_DEADLOCK FALSE
