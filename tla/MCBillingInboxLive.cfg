SPECIFICATION FairInboxSpec
CONSTANTS
    Ids = {i1, i2, i3}
    Contents = {c1}
    Hosts = {h1}
    MaxSequence = 3
    PageLimit = 1
    MigrateBatch = 1
    MaxTime = 0
    MaxFaults = 2
    NoBody = NoBody
    NoReceipt = NoReceipt
    NoId = NoId
    NoTime = NoTime
    Legacy = Legacy
PROPERTIES
    MigrationCompletes
    CollectorCatchesUp
