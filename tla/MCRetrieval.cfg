CONSTANTS
    NoProc = NoProc
    None = None
    p1 = p1
    Procs = {p1}
    Setups <- RetrievalSetups
    BlockIds = {b1, b2}
    Learnings = {l1, l2}
    MaxUpdates = 0
    MaxFaults = 1
    Dreamers = {d1, d2}
    Searchers = {s1}
    MaxSnapshots = 2
SPECIFICATION RetrievalSpec
SYMMETRY RetrievalSymmetry
INVARIANTS AnswersAreCurrent ClaimsAreBacked
