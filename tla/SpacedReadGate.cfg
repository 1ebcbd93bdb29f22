CONSTANTS
    a1 = a1
    a2 = a2
    a3 = a3
    None = None
    Account = {a1, a2, a3}
    MaxUrgent = 3
SPECIFICATION Spec
INVARIANTS NobodyIsForgotten
PROPERTIES ReadsAreSpaced WaitersAreAnswered
