\* Two threads of the pool, three calls of two callers, one failing defer
\* and one lost completion in each.
CONSTANTS
    N = 2
    Callers = {c1, c2}
    MaxCalls = 3
    MaxFail = 1
SPECIFICATION FairSpec
INVARIANTS
    DanglingOnlyAfterFailure
PROPERTIES
    SyncBarrier
    SyncReturns
CHECK_DEADLOCK FALSE
