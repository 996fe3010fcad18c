CONSTANTS
    MAX_RETRY = 5
    MAX_FEE_BPS = 1000
    PROTOCOL_FEE_BPS = 500
    STORAGE_RESERVE = 5
    CHARGE_GAS_BUDGET = 3
    MIN_REFUND = 1
    CHARGE_LEAD_S = 120
    EagerSigner = TRUE
    CHARGE_TOLERANCE_SEC = 120
    EXT_MSG_TTL = 60
    DEFAULT_GRACE_SEC = 259200
    PAYMENT_GAS = 1
    FEE_MSG_GAS = 1
    KEEPER_REWARD = 1
    JETTON_TRANSFER_GAS = 5
    FACTORY_DEPLOY_GAS = 5
    ExecGas = 1
    FwdFee = 0
    OpValue = 5
    PaymentType = "TON"
    KeeperMode = TRUE
    FeeBps = 1000
    BodyInRef = TRUE
    Epoch = 1000000
    Period = 3600
    TrialPeriod = 0
    Price = 20
    FirstDeposit = 68
    Keys = {"k1"}
    Times = {1000000, 1003480, 1007080, 1010680}
    TopUps = {}
    Plans <- CheaperPlan
    PeriodCaps = {1}
    TokenAmounts = {}
    ParsedAmounts = {}
    Ops = {"cancel"}
    MaxSeqno = 4
    MaxFunds = 0
SPECIFICATION Spec
INVARIANT NeverBilledAhead
PROPERTIES RevivedOnlyByLateBounce TermNeverOverrun DebitMatchesMessages SendsKeepReserve
CHECK_DEADLOCK FALSE
