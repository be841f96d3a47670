\* One charge of a key beside an edit of the key.
SPECIFICATION EditSpec
CONSTANTS
    t1 = t1
    t2 = t2
    t3 = t3
    t4 = t4
    k1 = k1
    k2 = k2
    user = user
    sub = sub
    key = key
    account = account
    Tasks = {t1, t2, t3, t4}
    Keys = {k1, k2}
    Rows = {user, sub, key, account}
    Edited = {user, key}
    NoRow = NoRow
    NoPrint = NoPrint
    NoWindow = NoWindow
    KeyOf <- MCKeyOf
    PrintOf <- MCPrintOf
    Target <- MCTarget
    Cost <- MCCost
    Limit <- MCLimit
    WindowLength = 1
    MaxClock = 1
    MaxFaults = 1
INVARIANT ChargesAreKept
