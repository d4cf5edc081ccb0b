CONSTANTS
    Accounts = {alice, bob}
    Admin = bob
    WithdrawUsers = {alice, bob}
    LockedUsers = {}
    LegacyUsers = {}
    Amounts = {1, 2}
    Moves = {}
    Yields = {}
    Prizes = {1}
    Assets = {1, 2}
    Injections = {1}
    Releases = {1}
    Caps = {2}
    Reserves = {}
    Lockups = {0}
    Deadlines = {}
    Lockup = 1
    Expiry = 1
    Batches = {1}
    MaxLedger = 1
    MaxDeposits = 2
    MaxCustody = 3
    MaxReward = 1
    MaxRequests = 0
SPECIFICATION Spec
CHECK_DEADLOCK FALSE
INVARIANT NeverOverpaid
PROPERTY EmergencyRateKept
