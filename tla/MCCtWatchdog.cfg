SPECIFICATION FairWatch
CONSTANTS
    Cts = {1, 2}
    Excluded = {}
    RestartEnabled = TRUE
    FailsRequired = 2
    Cooldown = 4
    GlobalCooldown = 2
    Interval = 1
    TimeoutStart = 2
INVARIANTS WatchTypeOK RestartsPaced RestartEarned
PROPERTY FirstTended
