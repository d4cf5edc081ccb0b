CONSTANTS
    Accounts = {alice, bob}
    Admin = bob
    WithdrawUsers = {alice, bob}
    LockedUsers = {bob}
    LegacyUsers = {}
    Amounts = {1, 2}
    Moves = {1}
    Yields = {}
    Prizes = {}
    Assets = {}
    Injections = {}
    Releases = {}
    Caps = {}
    Reserves = {1}
    Lockups = {}
    Deadlines = {}
    Lockup = 1
    Expiry = 1
    Batches = {1, 2}
    MaxLedger = 2
    MaxDeposits = 3
    MaxCustody = 3
    MaxReward = 1
    MaxRequests = 3
SPECIFICATION Spec
CHECK_DEADLOCK FALSE
INVARIANT QueueConsistent
PROPERTY QueueFIFO
