SPECIFICATION Spec
CONSTANTS
    Absent = Absent
    Keys = {k1, k2, k3}
    MaxFailures = 2
    BaseLockout = 2
    MaxMultiplier = 4
    SoftCap = 2
    Second = 3
SYMMETRY Symmetric
INVARIANTS
    TypeOK
    LockFollowsFailures
    RetryAfterIsRight
PROPERTIES
    LockOnlyGrows
    ImplementsLimiter
