CONSTANTS
    a1 = a1
    g1 = g1
    g2 = g2
    q1 = q1
    q2 = q2
    None = None
    Account = {a1}
    Grant = {g1, g2}
    Attempt = {q1, q2}
    OwnerOf <- MCOwnerOf
    Window = 1
    MaxEvents = 2
SPECIFICATION Spec
SYMMETRY MCSymmetry
INVARIANTS LedgerIsTruthful
PROPERTIES NoSecondSpend OnlyPendingIsSent OnlyTheOwedPauseIsLifted RestoredStatusIsFresh
