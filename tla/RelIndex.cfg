CONSTANTS
    Factories = {f1, f2}
    Fallback = f1
    PAGE = 2
    NumCycles = 2
    Seeded = {f1}
    MaxLt = 4
    MaxOther = 1
    MaxFaults = 1
SPECIFICATION FairSpec
INVARIANTS TypeOK NothingBelowCursorMissed
PROPERTIES AllIndexed
