CONSTANTS
    Addresses = {a1, a2}
    Fetches = {f1, f2}
    MaxPending = 2
    MaxClicks = 1
    MaxSwitches = 1
    MaxCharges = 1
    MaxPlans = 2
    MaxFaults = 1
SPECIFICATION FairSpec
INVARIANT LoadingIsAsked
PROPERTIES ViewConverges
CHECK_DEADLOCK FALSE
