SPECIFICATION FairSpec
CONSTANTS
    Definitions = {daily}
    Once = {}
    SkipMissed = {daily}
    daily = daily
    WindowsOf <- Windows
    MissedAfter = 0
    LateReports = TRUE
    RetryLimit = 1
    MaxTime = 2
    Seen = {"queued", "blocked", "completed"}
    MaxManual = 1
    NoWindow = NoWindow
INVARIANTS TypeOK
PROPERTIES OnlyNewestWindow DueUnlessRefused EndIsMirrored
CHECK_DEADLOCK FALSE
