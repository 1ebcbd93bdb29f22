CONSTANTS
    r1 = r1
    r2 = r2
    haiku = haiku
    opus = opus
    Request = {r1, r2}
    Family = {haiku}
    Wide = wide
    DefaultCooldown = 1
    MaxCooldown = 2
    AdmissionTtl = 1
    MaxGeneration = 2
    MaxProbe = 3
    HoldBudget = 2
    HoldCap = 1
SPECIFICATION HoldSpec
PROPERTIES AdmissibleIsAttempted
CHECK_DEADLOCK FALSE
