CONSTANTS
    h1 = h1
    h2 = h2
    r1 = r1
    r2 = r2
    a1 = a1
    Handles = {h1, h2}
    Records = {r1, r2}
    Agents = {a1}
    NoAgent = NoAgent
    NoHead = NoHead
    ResidentCap = 1
    Setups <- AuditSetups
SPECIFICATION Spec
CHECK_DEADLOCK FALSE
INVARIANTS WindowIsTail PagesAreExact ReadableIsClean PinCatchesLoss CleanIsOneChain
