SPECIFICATION CompactionSpec
CONSTANTS
    Generations = {g1, g2}
    Initial = Initial
    None = None
    MaxWrites = 3
    ReplayBatch = 1
    GateLag = 1
    JournalLimit = 2
    MaxFaults = 2
CHECK_DEADLOCK FALSE
INVARIANTS
    ServesEveryWrite
    RecoversEveryWrite
    CatchUpComplete
    PlaintextOwned
PROPERTIES
    ShadowsKeepOwner
