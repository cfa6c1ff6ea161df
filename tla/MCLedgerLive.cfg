CONSTANTS
    NoProc = NoProc
    None = None
    p1 = p1
    p2 = p2
    p3 = p3
    l1 = l1
    l2 = l2
    Procs = {p1, p2}
    Setups <- LiveSetups
    BlockIds = {b1, b2}
    Learnings = {l1}
    MaxUpdates = 1
    MaxFaults = 1
SPECIFICATION FairSpec
PROPERTY OperationsEnd
