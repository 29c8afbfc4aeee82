\* One delivery, two attempts and an identity more than they can use, so that a
\* poll is always possible.  No symmetry: one of the properties is temporal.
SPECIFICATION FairSpec
CONSTANTS
    Deliveries = {d1}
    Attempts = {a1, a2, a3}
    None = None
    MaxTime = 5
    Lease = 2
    MaxAttempts = 2
    MaxDelay = 1
INVARIANTS
    AttemptsNeverOverlap
    RowMatchesAttempts
    ToldIsRecorded
PROPERTIES
    EndIsFinal
    EveryDeliveryEnds
