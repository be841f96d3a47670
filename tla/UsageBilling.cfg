\* Two recordings of one usage, a conflicting one, and a fourth of another id.
SPECIFICATION Spec
CONSTANTS
    t1 = t1
    t2 = t2
    t3 = t3
    t4 = t4
    k1 = k1
    k2 = k2
    user = user
    sub = sub
    key = key
    account = account
    Tasks = {t1, t2, t3, t4}
    Keys = {k1, k2}
    Rows = {user, sub, key, account}
    NoPrint = NoPrint
    NoWindow = NoWindow
    KeyOf <- MCKeyOf
    PrintOf <- MCPrintOf
    Target <- MCTarget
    Cost <- MCCost
    Limit <- MCLimit
    WindowLength = 1
    MaxClock = 1
    MaxFaults = 1
INVARIANTS TypeOK ExhaustedIsMarked WindowCountsCharges NoDeadlock
PROPERTY ImplementsLedger
