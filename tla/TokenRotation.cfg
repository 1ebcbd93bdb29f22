CONSTANTS
    r1 = r1
    r2 = r2
    scheduler = scheduler
    timer = timer
    Nobody = nobody
    Request = {r1}
    Proactive = {scheduler}
    Sweeper = {timer}
    Reauthenticates = FALSE
    MaxMint = 3
    MaxDbFailures = 2
    MaxCrashes = 1
SPECIFICATION Spec
INVARIANTS TypeOK LiveTokenNotLost
PROPERTIES RowNeverGoesBack OnlyDeadAccountsPaused CallsReturn PendingIsResolved
CHECK_DEADLOCK FALSE
