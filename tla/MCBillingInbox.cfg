SPECIFICATION InboxSpec
CONSTANTS
    Ids = {i1, i2, i3, i4}
    Contents = {c1, c2}
    Hosts = {h1, h2}
    MaxSequence = 3
    PageLimit = 2
    MigrateBatch = 2
    MaxTime = 1
    MaxFaults = 1
    NoBody = NoBody
    NoReceipt = NoReceipt
    NoId = NoId
    NoTime = NoTime
    Legacy = Legacy
SYMMETRY Symmetry
INVARIANTS
    TypeOK
    ExactlyOnce
    AckedDurable
    CollectedPrefix
    BytesPreserved
    ReceiptsComplete
PROPERTIES
    PermanentReceipts
    FencedFrozen
