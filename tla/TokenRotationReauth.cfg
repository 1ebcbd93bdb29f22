CONSTANTS
    r1 = r1
    r2 = r2
    scheduler = scheduler
    timer = timer
    Nobody = nobody
    Request = {r1, r2}
    Proactive = {}
    Sweeper = {timer}
    Reauthenticates = TRUE
    MaxMint = 4
    MaxDbFailures = 0
    MaxCrashes = 0
SPECIFICATION Spec
INVARIANTS RowHoldsNewestGrant
CHECK_DEADLOCK FALSE
