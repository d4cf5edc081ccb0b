CONSTANTS
    Accounts = {alice, bob}
    Admin = bob
    WithdrawUsers = {alice}
    LockedUsers = {bob}
    LegacyUsers = {}
    Amounts = {1}
    Moves = {1}
    Yields = {1}
    Prizes = {}
    Assets = {}
    Injections = {}
    Releases = {}
    Caps = {}
    Reserves = {}
    Lockups = {}
    Deadlines = {1}
    Lockup = 1
    Expiry = 1
    Batches = {1}
    MaxLedger = 2
    MaxDeposits = 3
    MaxCustody = 3
    MaxReward = 1
    MaxRequests = 1
SPECIFICATION Spec
CHECK_DEADLOCK FALSE
INVARIANT AccountsBacked
PROPERTY PrincipalKept
