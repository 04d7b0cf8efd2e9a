SPECIFICATION UploadSpec
CONSTANTS
    s1 = s1  s2 = s2
    Ids <- MCIds
    MaxAttempts = 2
    Files <- MCFiles
    ChunkSize = 2
    NotText = {"nul"}
    EventSize <- MCEventSize
    MaxEvent = 4
    MaxFaults <- AllFaults
    FaultMixes <- OneOfThem
INVARIANTS
    StoredIsSent
    NoByteLost
    AcceptedIsStored
PROPERTIES
    ImplementsSubmissionService
    EveryRequestAnswered
