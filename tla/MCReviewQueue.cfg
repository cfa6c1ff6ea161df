SPECIFICATION FairSpec
CONSTANTS
    w1 = w1
    w2 = w2
    r1 = r1
    r2 = r2
    c1 = c1
    c2 = c2
    Producers = {w1, w2}
    Reviewers = {r1, r2}
    Claims = {c1, c2}
    Days = {d1}
    MaxErrors = 1
    Absent = Absent
    Empty = Empty
    Garbled = Garbled
    None = None
    Setups <- MCSetups
INVARIANTS TypeOK QueueConserves ApprovedIsCommitted VerdictsStand DeltaIsHonest
PROPERTY DeltasAreProduced
