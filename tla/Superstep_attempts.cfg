\* Takeovers, failures and delayed retries of one node over three checkpoints,
\* with two barriers in flight.
SPECIFICATION Spec
CHECK_DEADLOCK FALSE
SYMMETRY Symmetry
CONSTANTS
    Nodes = {n1}
    n1 = n1
    Checkpoints = {c1, c2, c3}
    c1 = c1
    c2 = c2
    c3 = c3
    Attempts = {a1, a2, a3}
    a1 = a1
    a2 = a2
    a3 = a3
    Workers = {w1, w2}
    w1 = w1
    w2 = w2
    Invocations = {}
    Risks = {"non_idempotent_write"}
    None = None
    MaxTime = 1
    MaxDelay = 1
    MaxEpoch = 3
    MaxAttempts = 3
    MaxRevisions = 1
    MaxEvents = 7
    MaxBarriers = 2
INVARIANTS
    LineageIsLinear
    AttemptHistoryVerifies
    RecoveryAgreesWithStore
