SPECIFICATION FairForwarderSpec
CONSTANTS
    MaxLines = 4
    BatchSize = 2
    SpoolLimit = 1
    MaxSince = 2
    MaxFaults = 3
    Docker = FALSE
    Poison = {4}
INVARIANTS
    CursorAcknowledged
    SpoolExpendable
    DuplicateIsStored
PROPERTIES
    EventuallyAnswered
