CONSTANTS
    Producers = {p1, p2}
    Consumers = {c1, c2, c3}
    ConsumerOps = {"pop", "pop_latest"}
    Capacity = 2
    Policies = {"BlockWhenFull", "DropOldestWhenFull"}
    MaxPush = 5
SPECIFICATION FairSpec
CHECK_DEADLOCK FALSE
INVARIANTS Conservation NoStrandedConsumer NulloptIsFinal
PROPERTIES LatestIsNewest ImplementsChannel CloseReleasesAll BlockedPushReturns
