CONSTANTS
    NoProc = NoProc
    None = None
    p1 = p1
    p2 = p2
    p3 = p3
    l1 = l1
    l2 = l2
    Procs = {p1, p2, p3}
    Setups <- LedgerSetups
    BlockIds = {b1, b2, b3}
    Learnings = {l1, l2}
    MaxUpdates = 1
    MaxFaults = 2
SPECIFICATION Spec
INVARIANTS TypeOK ChainIntact DurableAppends AppendsAreRegistered FilesAgree CountersAreExact
PROPERTY LogSpec
