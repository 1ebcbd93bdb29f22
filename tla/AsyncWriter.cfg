CONSTANTS
    r1 = r1
    r2 = r2
    r3 = r3
    r4 = r4
    Batch = Batch
    Idle = Idle
    Request = {r1, r2, r3}
    QueueCap = 1
    JobCap = 2
    BytesCap = 5
    EntryMax = 3
    Sizes = {1, 3, 4}
SPECIFICATION Spec
INVARIANTS BudgetIsExact PublishedHasRow DisposedLosesNothing
CHECK_DEADLOCK FALSE
PROPERTIES AcceptedJobsRun DrainEnds
