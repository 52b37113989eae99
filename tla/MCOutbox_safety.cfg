SPECIFICATION Spec
CONSTANTS
    Ids = {1, 2}
    Tenants = {"t1", "t2"}
    Keys = {"k1", "k2"}
    TenantOf <- MCTenantOf
    KeyOf <- MCKeyOf
    Poison = {"k2"}
    Workers = {"w1", "w2"}
    MaxAttempts = 2
    Lease = 2
    BatchSize = 2
    Concurrency = 1
    SkipLocked = TRUE
    MaxTime = 5
    InputHorizon = 4
    MaxReplays = 1
INVARIANTS KeyExclusive ClaimsFenced DeliveryBudget
PROPERTIES LeaseExclusive ImplementsLedger
CHECK_DEADLOCK FALSE
