CONSTANTS
    p1 = p1
    p2 = p2
    p3 = p3
    Payload = {p1, p2}
    MaxGen = 3
    RotationBudget = 1
    MaxFaults = 2
    MayExpire = TRUE
    MayDispose = TRUE
    MayBeFatal = TRUE
    MayDieClosing = TRUE
SPECIFICATION Spec
SYMMETRY MCSymmetry
PROPERTIES ImplementsLedger ExpiredIsNotReplayed
INVARIANTS TypeOK OneWriterPerRow NothingIsStranded
CHECK_DEADLOCK FALSE
