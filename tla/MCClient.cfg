CONSTANTS
    x1 = x1
    x2 = x2
    y1 = y1
    y2 = y2
    Scopes = {s1, s2}
    s1 = s1
    s2 = s2
    MaxTxs = 2
    MaxSwitches = 2
    Queued = {x1, x2}
    MAX_RETRY_ATTEMPTS = 2
    MaxTries = 2
    Amounts = {0, 10, 15, 20}
    Limits = {14, 16}
    AppBalance = 100
    Token = 20
    GroupTokens = 5
    PreviewPools <- MCPreviewPools
    MaxFeeLoads = 3
    Admins = {"admin1", "admin2"}
    RequiredSignatures = 2
    HIGH_RISK_DELAY_SECONDS = 2
    MsPerSecond = 2
    LastTick = 4
    ProposedValues = {3, 20, 25}
    ParamCatalog <- MCParamCatalog
    Nodes = {x1, x2}
    PoolCalls = {y1, y2}
    maxRetries = 2
    unhealthyThreshold = 2
    RetryAfter = 1
    LastInstant = 1
    Tabs = {x1, x2}
    Accounts = {"A", "B"}
    Checks = {1, 2}
    Networks = {"testnet"}
    MaxChanges = 1
    Pages = {x1, x2}
    AccountKeys = {"A@testnet", "B@testnet"}
    Identities = {"apy::vault", "pause::global"}
    AudienceOf <- MCAudienceOf
    AlertInputs <- MCAlertInputs
    SeedAlerts <- MCSeedAlerts
    MaxVersion = 2
    DepositFloor = 1
    DepositCeiling = 2
    CapFloor = 1
    CapCeiling = 2
    MaxPlaces = 1
    FieldValues <- MCFieldValues
    MaxPools = 1
    Listings = {x1, x2}
    LedgerNumbers = {1, 2}
    FaqTopics = {"wallet", "security"}
    MaxTickets = 2
    LastSecond = 5
    BridgeSteps = 3
    EstimatedTime = 2
    Intervals = {0, 1, 2}
    ToastIds = {"x1", "x2"}
    RpcFields = {"horizon", "avalanche"}
    CustomUrls = {"node", "node/"}
    Trimmed <- MCTrimmed
    MaxSaves = 2
    MaxProbes = 1
    Endpoints = {x1, x2}
    CheckEvery = 3
    AbortAfter = 1
    LastMoment = 6
    ClosedRounds <- MCClosedRounds
    PageSize = 1
    FilterDates = {1, 2}
    Exporters = {"wallet1", "wallet2"}
    ExportPage = 1
    MaxActivity = 3
    Savers = {"x1", "x2"}
    Targets <- MCTargets
    SavedSums = {0, 1, 2}
    MaxBalance = 2
    MaxYield = 2
    ClaimDeadline = 0
    LastSaving = 1
    MaxQuests = 4
SYMMETRY Symmetry
SPECIFICATION MCSpec
CHECK_DEADLOCK FALSE
INVARIANTS
    OutcomesAreReal
    SentWasChecked
    ShownIsSo
PROPERTIES
    ChoicesStand
