CONSTANTS
    Services = {"s1", "s2"}
    RegistryOwner = "owner"
    FeeRates = {50, 1000, 1001}
    Addresses = {"a1", "a2"}
    RelayerKeys = {"k1", "k2"}
    Values = {30, 35, 40, 60}
    MaxRegistryOps = 5
    Terminals = {t1, t2}
    Starts <- Together
    t1 = t1
    t2 = t2
    MaxPolls = 1
    MaxFaults = 1
SPECIFICATION MCSpec
INVARIANTS DoneIsTrue CollectorFirst RentCovered OneFactoryEach
PROPERTIES EveryScriptEnds
CHECK_DEADLOCK FALSE
