SPECIFICATION LifecycleSpec
CONSTANTS
    i1 = i1
    i2 = i2
    c1 = c1
    h1 = h1
    s1 = s0
    Ids = {i1, i2}
    Contents = {c1}
    Hosts = {h1}
    MaxSequence = 2
    PageLimit = 0
    MigrateBatch = 1
    MaxTime = 0
    MaxFaults = 1
    Sets = {s1, s2}
    Ops = {}
    Plans = {}
    Retention = 0
    MaxRange = 2
    CacheMax = 0
    RehydrateBatch = 1
    EvictBatch = 1
    SourceContents = {c1}
    NoSet = NoSet
    NoManifest = NoManifest
    NoPlan = NoPlan
    NoBody = NoBody
    NoReceipt = NoReceipt
    NoId = NoId
    NoTime = NoTime
    Legacy = Legacy
SYMMETRY CaptureSymmetry
INVARIANTS
    ProtectedIsArchived
    OnePendingSet
    CapturesPartition
    SealedResumable
