\* Two replicas with retries that overlap, restarts, pruning and two policies.
CONSTANTS
    Replicas = {r1, r2}
    Tenants = {1, 2, 3}
    Policies <- TwoPolicies
    None = None
    MaxTicks = 4
    MaxRequests = 2
    MaxPending = 2
    MaxWeight = 4
    MaxTime = 2
    RetainFor = 1
    ClockRegresses = FALSE
\* All ticks are used up.
CHECK_DEADLOCK FALSE
SPECIFICATION Spec
SYMMETRY Symmetry
INVARIANTS
    OneSlotPerTick
    StarvationBoundIsExact
