CONSTANTS
    Workers = {w1, w2}
    Attempts = {a1, a2}
    None = None
    MaxEpoch = 3
\* A committed invocation, or one left executing by a crash, is where it ends.
CHECK_DEADLOCK FALSE
SPECIFICATION Spec
SYMMETRY Symmetry
INVARIANTS PreparedCanStart
