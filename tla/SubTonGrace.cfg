CONSTANTS
    MAX_RETRY = 5
    MAX_FEE_BPS = 1000
    PROTOCOL_FEE_BPS = 150
    STORAGE_RESERVE = 5
    CHARGE_GAS_BUDGET = 3
    MIN_REFUND = 1
    CHARGE_LEAD_S = 120
    EagerSigner = TRUE
    CHARGE_TOLERANCE_SEC = 120
    EXT_MSG_TTL = 60
    DEFAULT_GRACE_SEC = 259200
    PAYMENT_GAS = 1
    FEE_MSG_GAS = 1
    KEEPER_REWARD = 1
    JETTON_TRANSFER_GAS = 5
    FACTORY_DEPLOY_GAS = 5
    ExecGas = 1
    FwdFee = 0
    OpValue = 5
    PaymentType = "TON"
    KeeperMode = FALSE
    FeeBps = 0
    BodyInRef = FALSE
    Epoch = 1000000
    Period = 3600
    TrialPeriod = 0
    Price = 20
    FirstDeposit = 45
    Keys = {"k1"}
    Times = {1000000, 1003480, 1007080, 1007140, 1266280}
    TopUps = {15}
    Plans <- NoPlans
    PeriodCaps = {}
    TokenAmounts = {}
    ParsedAmounts = {}
    Ops = {"topUp"}
    MaxSeqno = 6
    MaxFunds = 30
SPECIFICATION FairSpec
INVARIANT TypeOK
PROPERTIES GraceDeadlineFixed NonPaymentEnds
CHECK_DEADLOCK FALSE
