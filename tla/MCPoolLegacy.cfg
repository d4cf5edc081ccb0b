CONSTANTS
    Accounts = {alice, bob}
    Admin = bob
    WithdrawUsers = {alice, bob}
    LockedUsers = {}
    LegacyUsers = {alice}
    Amounts = {1}
    Moves = {1}
    Yields = {}
    Prizes = {}
    Assets = {}
    Injections = {}
    Releases = {}
    Caps = {}
    Reserves = {}
    Lockups = {}
    Deadlines = {}
    Lockup = 1
    Expiry = 1
    Batches = {1}
    MaxLedger = 2
    MaxDeposits = 3
    MaxCustody = 3
    MaxReward = 1
    MaxRequests = 2
SPECIFICATION Spec
CHECK_DEADLOCK FALSE
PROPERTY PrincipalKept
