CONSTANTS
    COLLECTOR_RESERVE = 10
    WITHDRAWAL_TIMELOCK_SEC = 86400
    EXT_MSG_TTL = 60
    ExecGas = 1
    FwdFee = 1
    k1 = k1
    k2 = k2
    d1 = d1
    d2 = d2
    Keys <- TwoKeys
    NoKey = NoKey
    Dests <- TwoDests
    NoDest = NoDest
    Epoch = 1000000
    Times = {1000000, 1086340, 1086400, 1172800}
    Amounts = {0, 5}
    Deposits = {6}
    Fees = {5}
    FirstBalance = 26
    MaxSeqno = 4
    MaxOrders = 2
    MaxFunds = 11
SPECIFICATION Spec
INVARIANTS TypeOK PayoutsSpaced
PROPERTIES ReserveStays ImplementsVault
CHECK_DEADLOCK FALSE
SYMMETRY Symmetries
