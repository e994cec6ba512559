SPECIFICATION CompactionSpec
CONSTANTS
    Generations = {g1, g2}
    Initial = Initial
    None = None
    MaxWrites = 0
    ReplayBatch = 1
    GateLag = 1
    JournalLimit = 2
    MaxFaults = 1
CHECK_DEADLOCK FALSE
INVARIANTS
    DurablePointerFirst
