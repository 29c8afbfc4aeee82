\* No symmetry: the properties are temporal.
SPECIFICATION LiveSpec
CONSTANTS
    e1 = e1
    e2 = e2
    e3 = e3
    w1 = w1
    w2 = w2
    p1 = p1
    q1 = q1
    None = None
    EventIds = {e1}
    Attempts = {w1, w2}
    Payloads = {p1}
    QuarantineIds = {q1}
    MaxTime = 2
    LeaseDuration = 1
    MaxHorizon = 2
    MaxEpoch = 2
CHECK_DEADLOCK FALSE
PROPERTIES
    LapsedRunIsTakenOver
    DelayedRunIsWoken
