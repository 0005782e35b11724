SPECIFICATION TimelySpec
CONSTANTS
    p1 = p1
    p2 = p2
    Pods = {p1, p2}
    BadPods = {p2}
    LeaderLockTTL = 7
    TTL <- MCTTL
    RefreshEvery <- MCRefreshEvery
    RetryEvery <- MCRetryEvery
    DrainTimeout = 2
    Delay = 1
    StopTime = 1
    Faults = {"crash", "signal", "redis"}
    MaxFaults = 3
    NoPod = NoPod
    Orphan = Orphan
INVARIANTS TimelyInv LiveSchedulerHoldsLock
PROPERTIES SingleSchedulerSpec
