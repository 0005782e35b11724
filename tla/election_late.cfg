SPECIFICATION LoopSpec
CONSTANTS
    p1 = p1
    p2 = p2
    Pods = {p1, p2}
    BadPods = {p2}
    LeaderLockTTL = 3
    TTL <- MCTTL
    RefreshEvery <- MCRefreshEvery
    RetryEvery <- MCRetryEvery
    DrainTimeout = 2
    Delay = 0
    StopTime = 1
    Faults = {"crash", "signal", "redis", "deadline"}
    MaxFaults = 2
    NoPod = NoPod
    Orphan = Orphan
INVARIANTS TypeOK OwnedLockIsManaged
PROPERTIES LossNoticed LoopEndsAfterCancel
