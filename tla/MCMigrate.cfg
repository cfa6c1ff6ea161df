SPECIFICATION Spec
CONSTANTS
    k0 = k0
    k1 = k1
    v1 = v1
    v2 = v2
    n1 = n1
    o1 = o1
    Procs = {p, q}
    KeyPairs = {k0, k1}
    NewKeys = {k1}
    MaxFaults = 1
    NoFile = NoFile
    Torn = Torn
    None = None
    Sources <- MCSources
    NewBlocks = {n1}
    Objects = {o1}
    ObjectOf <- MCObjectOf
    MaxRuns = 2
INVARIANTS MigrationIsComplete ReportsAreTrue SignaturesVerify TrustIsKept
