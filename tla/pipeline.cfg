SPECIFICATION FairSpec
CONSTANTS
    p1 = p1
    p2 = p2
    Texts <- MCTexts
    NoText = ""
    Half = 4
    NoQueue = NoQueue
    NoGroup = NoGroup
    DefaultRetry = 1
    Requests <- MCRequests
    Req <- MCReq
    MaxRequests = 2
    Batches = {"b1", "b2", "b3"}
    Pods = {p1, p2}
    Settings = {"", "proto"}
    Served = {"critical", "default", "low"}
    MaxSize = 2
    Success = {1}
    ClientError = {2}
    MaxFaults = 1
    NoJob = NoJob
INVARIANTS TypeOK OnceUnlessLeft TakenIsHeld BatchIsOneUser NumbersIntact WebhookNoTwin ShortOnlyFromCLI UniformIsReadable UniformIsCarried
PROPERTIES OutboxSpec QueueSpec EveryTaskEnds
CHECK_DEADLOCK FALSE
