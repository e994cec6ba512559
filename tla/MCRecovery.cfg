SPECIFICATION RecoverySpec
CONSTANTS
    MaxWrites = 2
    MaxBackups = 1
    MaxRestores = 2
    MaxFaults = 1
    MaxApprovals = 1
    MaxTime = 2
    TTL = 2
    Skew = 1
    Drifts = {0, 2}
INVARIANTS
    ServesOnlyAdmitted
    NoReallocation
    PreparedOpens
PROPERTIES
    RecoveryCompletes
CHECK_DEADLOCK FALSE
