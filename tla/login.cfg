SPECIFICATION LoginSpec
CONSTANTS
    address = address
    account = account
    target = target
    Absent = Absent
    Idle = Idle
    Clients = {c1, c2}
    IPs = {address}
    Accounts = {account}
    Resets = {target}
    Keys <- MCKeys
    MaxFailures = 1
    BaseLockout = 1
    MaxMultiplier = 2
    SoftCap = 1
    Second = 1
PROPERTIES
    LockStands
    LocksEnd
