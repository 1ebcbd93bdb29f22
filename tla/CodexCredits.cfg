CONSTANTS
    c1 = c1
    c2 = c2
    None = None
    Credit = {c1, c2}
    Lapsing = {c1}
    MaxAttempt = 2
    MaxObs = 1
    MaxEvents = 2
    MaxTotal = 3
SPECIFICATION Spec
INVARIANTS NoStaleReading SendsAreRemembered
PROPERTIES WeeklyClaimIsJustified PendingIsResolved
CHECK_DEADLOCK FALSE
