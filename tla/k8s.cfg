SPECIFICATION FairSpec
CONSTANTS
    p1 = p1
    p2 = p2
    Pods = {p1, p2}
    BadPods = {p2}
    Environments <- MCEnvironments
    Settings <- MCSettings
    DefaultLease = 6
    DefaultRetry = 1
    DefaultRefresh = 2
    Delay = 1
    StopTime = 1
    MaxFaults = 2
    NoPod = NoPod
INVARIANTS TypeOK StrayBounded DeafOnlyAfterLoss
PROPERTIES LeaseSpec LeaderAgain
