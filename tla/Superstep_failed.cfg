\* A checkpoint left with a failed invocation.
SPECIFICATION Spec
CHECK_DEADLOCK FALSE
SYMMETRY Symmetry
CONSTANTS
    Nodes = {n1}
    n1 = n1
    Checkpoints = {c1, c2}
    c1 = c1
    c2 = c2
    Attempts = {a1, a2, a3}
    a1 = a1
    a2 = a2
    a3 = a3
    Workers = {w1}
    w1 = w1
    Invocations = {i1}
    i1 = i1
    Risks = {"non_idempotent_write"}
    None = None
    MaxTime = 0
    MaxDelay = 0
    MaxEpoch = 1
    MaxAttempts = 2
    MaxRevisions = 5
    MaxEvents = 20
    MaxBarriers = 1
INVARIANTS
    FailedInvocationBlocksCheckpoint
