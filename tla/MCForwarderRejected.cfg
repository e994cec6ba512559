SPECIFICATION ForwarderSpec
CONSTANTS
    MaxLines = 2
    BatchSize = 2
    SpoolLimit = 1
    MaxSince = 0
    MaxFaults = 1
    Docker = TRUE
    Poison = {}
INVARIANTS
    AtLeastOnce
