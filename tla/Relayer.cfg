CONSTANTS
    s1 = s1
    s2 = s2
    Subs = {s1, s2}
    NoSub = none
    NumCycles = 2
    WAL_MAX_ATTEMPTS = 2
    HasSecret = TRUE
    MaxSeqno = 2
    MaxFaults = 1
SPECIFICATION MCSpec
INVARIANTS TypeOK LogIsTrue
PROPERTIES SendIsLogged ToldOnce WalDrains DueIsSettled
