SPECIFICATION SessionSpec
CONSTANTS
    s1 = s1
    s2 = s2
    d1 = d1
    l1 = l1
    l2 = l2
    x = x
    Servers = {s1, s2}
    Dirs = {d1}
    Global = Global
    Roots <- MCRoots
    Sessions = {a, b}
    Learnings = {l1, l2}
    Prefixes = {x}
    Under <- MCUnder
    Setups <- MCSetups
    MaxHandoffs = 2
    MaxTies = 1
    MaxFaults = 1
    None = None
    Hooks = {h1, h2}
    HookSessions = {s1, s2}
    Window = 2
    MaxTime = 2
    MaxFires = 3
    MaxHookFaults = 1
    NoFile = NoFile
INVARIANTS CurrentIsLatest NothingIsMissed SessionFindsItsHandoff ReinforcedIsRecalled RepeatsAreRaces SilenceIsOwed FileIsWhole
CHECK_DEADLOCK FALSE
