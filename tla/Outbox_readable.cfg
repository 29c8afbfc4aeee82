SPECIFICATION Spec
CONSTANTS
    Deliveries = {d1}
    Attempts = {a1, a2, a3}
    None = None
    MaxTime = 4
    Lease = 1
    MaxAttempts = 2
    MaxDelay = 0
SYMMETRY Symmetry
INVARIANTS
    DeadLettersAreReadable
