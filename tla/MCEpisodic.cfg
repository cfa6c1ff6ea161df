CONSTANTS
    Procs = {p1, p2}
    Sessions = {s1}
    Blocks = {b1}
    MaxLen = 2
    MaxEpisodes = 2
    MaxCrashes = 1
SPECIFICATION Spec
INVARIANTS NoDoubleCapture WatermarkIsCovered UnconfirmedStay
SYMMETRY Symmetry
