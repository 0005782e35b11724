SPECIFICATION Spec
CONSTANTS
    good = good
    refused = refused
    failing = failing
    flaky = flaky
    p1 = p1
    p2 = p2
    Tasks = {good, flaky}
    Pods = {p1, p2}
    GoodTasks = {good}
    RefusedTasks = {}
    FailingTasks = {}
    MaxRetry = 1
    Burst = 1
    MaxFaults = 2
    NoPod = NoPod
SYMMETRY PodSymmetry
INVARIANTS TypeOK GoodTaskNotArchived RepeatedOnlyByLoss CompletedWasDelivered SingleAttempt
PROPERTIES DeletedForGood QueueSpec
