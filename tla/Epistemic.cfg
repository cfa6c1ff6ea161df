CONSTANTS
    Tagged = {2000, 2500, 6500, 10000}
    CounterMax = 4
    MaxUpdates = 3
SPECIFICATION Spec
INVARIANTS TypeOK ValidatedIsEarned NeverFailedIsSurfaced NeverCrossesPrior
