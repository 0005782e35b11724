SPECIFICATION FairSpec
CONSTANTS
    p1 = p1
    p2 = p2
    Pods = {p1, p2}
    Exclusive = TRUE
    Period = 2
    UniqueTTL = 3
    DeadlineIn = 5
    Keys = {k1, k2}
    Slots = {s1, s2}
    MaxCrashes = 2
    MaxErrors = 2
    Dead = Dead
    Free = Free
INVARIANTS TypeOK NoDeadEntryWhileRunning
PROPERTIES OneInstancePerPeriod FiringLeavesRecent NoYoungTwin NeverSilenced
