SPECIFICATION BackgroundSpec
CONSTANTS
    p1 = p1
    r1 = "r1"
    FirstDevice = "a"
    Processes = {p1}
    Interval = 2
    MaxVersion = 3
    Devices = {"a", "b"}
    Verified = {"a"}
    Requests = {"r1"}
    HealthFailureThreshold = 2
    MaxFaults = 1
    Workers = {"store", "zenoh", "outbox"}
    StoreMonitor = "store"
    Spawners = {"zenoh", "outbox"}
INVARIANTS ReadyMeansFresh ScanIsOfTheNetwork AdvertisedAddressCurrent EndsQuietly
PROPERTIES ChangesReachEveryProcess RouterFollowsSelection ScansAreAnswered WorkerExitEndsProcess
CHECK_DEADLOCK FALSE
