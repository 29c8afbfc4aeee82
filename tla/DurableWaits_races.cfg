\* Two runs whose waits end at one instant, pages of one.
CONSTANTS
    Runs = {1, 2}
    Waits = {1, 2, 3}
    Intents <- TiedIntents
    MaxTime = 1
    MaxWaits = 2
    PageSize = 1
    ClockRegresses = FALSE
SPECIFICATION Spec
INVARIANTS
    WaitSetAgrees
    EndsOnce
    AbandonmentIsLast
    ScanIsExact
