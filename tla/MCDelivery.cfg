CONSTANTS
    w1 = w1
    w2 = w2
    tick1 = tick1
    tick2 = tick2
    tick3 = tick3
    Workers = {w1, w2}
    Ticks = {tick1, tick2}
    WorkerOf <- MCWorkerOf
    TTL = 2
    MaxTime = 3
    Streams <- MCStreams
    StreamLength = 3
    BatchSize = 2
    MaxMishaps = 2
    MountedSets <- MCMounted
    MaxSourceVersion = 2
    MaxOutages = 1
    Accounts = {a, b, c}
    Amounts = {1, 2}
    Outcomes = {5}
    PruneLists = {{a, b, c}}
    FinalizeDelay = 1
    MaxRounds = 2
    MaxPrincipal = 3
    MaxLedgerTime = 2
SPECIFICATION MCSpec
CHECK_DEADLOCK FALSE
INVARIANTS
    LeasesExclude
    NothingLeftBehind
    RoundsConsistent
    NoOverDistribution
PROPERTIES
    NoStepBack
    ExpiredLeaseReclaimed
    ImplementsDelivery
    EventuallyHandled
    InvalidatedIsRefetched
    RoundsFrozen
    LockedRoundSettles
