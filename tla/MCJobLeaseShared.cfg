CONSTANTS
    w1 = w1
    w2 = w2
    tick1 = tick1
    tick2 = tick2
    tick3 = tick3
    Workers = {w1, w2}
    Ticks = {tick1, tick2, tick3}
    WorkerOf <- MCWorkerOfShared
    TTL = 2
    MaxTime = 4
    Streams <- MCStreams
    StreamLength = 3
    BatchSize = 2
    MaxMishaps = 2
    MountedSets <- MCMounted
    MaxSourceVersion = 2
    MaxOutages = 1
    Accounts = {a}
    Amounts = {1}
    Outcomes = {1}
    PruneLists = {{a}}
    FinalizeDelay = 1
    MaxRounds = 1
    MaxPrincipal = 1
    MaxLedgerTime = 1
SPECIFICATION MCSpec
CHECK_DEADLOCK FALSE
INVARIANT FreshHoldersExclude
