SPECIFICATION FairSpec
CONSTANTS
    good = good
    refused = refused
    failing = failing
    flaky = flaky
    p1 = p1
    p2 = p2
    Tasks = {good, failing, refused}
    Pods = {p1}
    GoodTasks = {good}
    RefusedTasks = {refused}
    FailingTasks = {failing}
    MaxRetry = 1
    Burst = 1
    MaxFaults = 1
    NoPod = NoPod
PROPERTIES EveryTaskSettles
