SPECIFICATION FairWatch
CONSTANTS
    Cts = {1, 2, 3}
    Excluded = {}
    RestartEnabled = TRUE
    FailsRequired = 1
    Cooldown = 2
    GlobalCooldown = 1
    Interval = 1
    TimeoutStart = 1
PROPERTY Tended
