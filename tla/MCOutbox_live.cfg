SPECIFICATION LiveSpec
CONSTANTS
    Ids = {1, 2, 3}
    Tenants = {"t1", "t2"}
    Keys = {"k1", "k2", "k3"}
    TenantOf <- MCBusyTenant
    KeyOf <- MCDistinctKeyOf
    Poison = {"k2"}
    Workers = {"w1"}
    MaxAttempts = 2
    Lease = 1
    BatchSize = 2
    Concurrency = 1
    SkipLocked = FALSE
    MaxTime = 1
    InputHorizon = 0
    MaxReplays = 0
PROPERTIES TenantShare EventuallySettled
CHECK_DEADLOCK FALSE
