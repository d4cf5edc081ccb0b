CONSTANTS
    x1 = x1
    x2 = x2
    y1 = y1
    y2 = y2
    Actions = {x1, x2}
    Hashes = {h1, h2}
    Failing = {h2}
    Requests = {y1, y2}
    MaxRequests = 2
    Indexer = indexer
    Cron = cron
    NoAction = NoAction
    NoHash = NoHash
    proposer = proposer
    Operators = {proposer, x1, x2}
    DualControlStepThreshold = 1
    MaxStepsPerProposal = 3
    MaxDrift = 3
    Callers = {x1, x2}
    Inputs <- MCInputs
    MaxAttempts = 2
    MaxCalls = 3
    Sweepers = {x1, x2}
    Deposits = {y1, y2}
    Quests = {"q1", "q2"}
    Target <- MCTarget
    MaxGrantTries = 1
    MaxTurns = 4
    Challenges = {x1, x2}
    Visitors = {y1, y2}
    Servers = {p1, p2}
    MaxTokens = 4
    MaxVisits = 5
    Reminding = {x1, x2}
    MaxReminders = 4
    RetainDays = 1
    LastDay = 2
    Generators = {x1, x2}
    DrawRounds = {1, 2}
    RevealedSeeds <- MCSeeds
    MaxProofRuns = 2
    ViewKinds <- MCViewKinds
    ListFilters <- MCFilters
    PageSize = 1
    MaxRows = 3
    DEFAULT_POOL_ASSET_CODE = "USDC"
    EnvValues <- MCEnvValues
    FirstEnv <- MCFirstEnv
    MaxEdits = 2
    MaxCommit = 2
    Depositors = {"p1"}
    TtlThreshold = 20
    LastLedger = 3
    MaxLive = 4
    Digests = {"d1", "d2"}
    MaxRecords = 1
    Providers = {x1, x2, liar}
    Liars = {liar}
    low = low
    high = high
    BalanceValues = {low, high}
    minQuorum = 2
    maxFreshness = 1
    maxLedgerDivergence = 0
    flapThreshold = 1
    LastClose = 3
    Radix = 10
    Decimals = 2
    DecimalTexts <- MCDecimalTexts
    Payloads <- MCPayloads
    AssetCodes = {"XLM"}
    Scalars = {0, 4, 5}
    Members = {"m1", "m2"}
    Parts = {0, 1, 2}
    MaxRaw = 10
    Lists = {x1, x2}
    MaxWrites = 3
    MaxLists = 5
    Ranges <- MCRanges
    RpcPageLimit = 1
    FetchLimit = 2
    MaxBackfills = 2
SYMMETRY Symmetry
SPECIFICATION MCSpec
CHECK_DEADLOCK FALSE
INVARIANTS
    LedgerSound
    RepairsControlled
    SettlementSound
    GrantsCreditOnce
    SessionsSound
    
    OperationsSafe
    
PROPERTIES
    StandsFirm
