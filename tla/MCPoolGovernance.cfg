CONSTANTS
    s1 = s1
    s2 = s2
    s3 = s3
    Address = {s1, s2, s3}
    Founder = s1
    DefaultThreshold = 2
    Delay = 1
    Expiry = 1
    Payloads <- MCPayloads
    Versions = {1, 2}
    MaxLedger = 2
    MaxProposals = 3
    MaxFunds = 1
    l1 = l1
    l2 = l2
    LogicContracts = {l1, l2}
    ProxyAddress = ProxyAddress
    MaxUpgrades = 2
    t1 = t1
    t2 = t2
    Strategies = {t1, t2}
    Compatible = {t1, t2}
    ExposureCaps = {0, 1}
    MinIdleReserve = 1
    RotationDelay = 2
    MaxSequence = 3
    MaxTokens = 3
SYMMETRY Symmetry
SPECIFICATION MCSpec
INVARIANTS
    ProposalsWellFormed
    EpochPinsElectorate
    AppliedByCurrentQuorum
    NoStuckProposal
    UpgradeLineage
    StrategyAccounted
PROPERTIES
    QuorumStaysReachable
    ChangesAreGuarded
    ReplacementsGuarded
