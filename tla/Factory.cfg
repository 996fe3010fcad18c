CONSTANTS
    Users = {u1, u2}
    Service = svc
    Collectors = {orbit, orbit2}
    Offers <- TwoOffers
    Deposits = {20}
    Contributions = {30}
    BodyInRef = TRUE
    MaxPlans = 2
    MaxTime = 1
    MaxOps = 4
SYMMETRY UserSymmetry
SPECIFICATION Spec
INVARIANTS TypeOK TrialOnce PoolCovered PriceIsThePlans
CHECK_DEADLOCK FALSE
