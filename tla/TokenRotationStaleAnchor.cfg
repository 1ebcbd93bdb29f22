CONSTANTS
    r1 = r1
    r2 = r2
    scheduler = scheduler
    timer = timer
    Nobody = nobody
    Request = {r1, r2}
    Proactive = {}
    Sweeper = {timer}
    Reauthenticates = FALSE
    MaxMint = 4
    MaxDbFailures = 3
    MaxCrashes = 0
SPECIFICATION Spec
INVARIANTS LiveTokenNotLost
CHECK_DEADLOCK FALSE
