CONSTANTS
    Replicas = {r1}
    Tenants = {1, 2, 3}
    Policies <- TwoPolicies
    None = None
    MaxTicks = 2
    MaxRequests = 1
    MaxPending = 1
    MaxWeight = 4
    MaxTime = 2
    RetainFor = 2
    ClockRegresses = TRUE
SPECIFICATION Spec
INVARIANTS ShardDecodes
