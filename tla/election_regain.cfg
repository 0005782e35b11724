SPECIFICATION FairTimelySpec
CONSTANTS
    p1 = p1
    p2 = p2
    Pods = {p1, p2}
    BadPods = {}
    LeaderLockTTL = 4
    TTL <- MCTTL
    RefreshEvery <- MCRefreshEvery
    RetryEvery <- MCRetryEvery
    DrainTimeout = 2
    Delay = 0
    StopTime = 1
    Faults = {"crash", "signal", "redis", "deadline"}
    MaxFaults = 3
    NoPod = NoPod
    Orphan = Orphan
PROPERTIES LeadershipRegained
