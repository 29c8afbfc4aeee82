CONSTANTS
    Runs = {1, 2}
    Waits = {1, 2, 3}
    Intents <- TiedIntents
    MaxTime = 2
    MaxWaits = 2
    PageSize = 1
    ClockRegresses = FALSE
SPECIFICATION Spec
INVARIANTS DiscoveryIsReadable
