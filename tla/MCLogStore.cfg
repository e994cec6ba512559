SPECIFICATION LogStoreSpec
CONSTANTS
    Catalogue <- MCCatalogue
    Historical = {4}
    Unsendable = {6}
    CandidateLimit = 3
    MaxQueryLimit = 2
    MaxFaults = 1
INVARIANTS
    AnswerSound
    AnswerComplete
    BillingIsolated
