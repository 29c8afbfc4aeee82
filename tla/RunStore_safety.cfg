\* Two attempts, three epochs, two events: a displaced worker can come back
\* with its old fence after it regained the lease.  The system may come to
\* rest: a finished or quarantined run, all epochs granted.
SPECIFICATION Spec
CONSTANTS
    e1 = e1
    e2 = e2
    e3 = e3
    w1 = w1
    w2 = w2
    p1 = p1
    q1 = q1
    None = None
    EventIds = {e1, e2}
    Attempts = {w1, w2}
    Payloads = {p1}
    QuarantineIds = {q1}
    MaxTime = 1
    LeaseDuration = 1
    MaxHorizon = 2
    MaxEpoch = 3
SYMMETRY Symmetry
CHECK_DEADLOCK FALSE
INVARIANTS
    TypeOK
    RowDecodes
    FencingInv
    JournalInv
PROPERTIES
    DisplacedWorkerHasNoEffect
    EndsAreFinal
    ImplementsDurableRun
