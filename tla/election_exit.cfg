SPECIFICATION Spec
CONSTANTS
    p1 = p1
    p2 = p2
    Pods = {p1, p2}
    BadPods = {}
    LeaderLockTTL = 7
    TTL <- MCTTL
    RefreshEvery <- MCRefreshEvery
    RetryEvery <- MCRetryEvery
    DrainTimeout = 2
    Delay = 1
    StopTime = 1
    Faults = {"signal"}
    MaxFaults = 1
    NoPod = NoPod
    Orphan = Orphan
PROPERTIES ExitWaitsForLoop
