CONSTANTS
    NoProc = NoProc
    None = None
    p1 = p1
    p2 = p2
    p3 = p3
    l1 = l1
    l2 = l2
    Procs = {p1, p2}
    Setups <- LostUpdateSetups
    BlockIds = {b1, b2}
    Learnings = {l1, l2}
    MaxUpdates = 1
    MaxFaults = 0
SPECIFICATION Spec
INVARIANT AcknowledgedUpdatesPersist
