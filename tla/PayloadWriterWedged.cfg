CONSTANTS
    p1 = p1
    p2 = p2
    p3 = p3
    Payload = {p1}
    MaxGen = 3
    RotationBudget = 2
    MaxFaults = 1
    MayExpire = FALSE
    MayDispose = TRUE
    MayBeFatal = FALSE
    MayDieClosing = TRUE
SPECIFICATION Spec
PROPERTIES DisposalEnds
CHECK_DEADLOCK FALSE
