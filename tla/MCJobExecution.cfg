\* Two jobs, one of them due at every tick and one only run by hand, one dispatcher, one external
\* worker, two attempts.
CONSTANTS
    j1 = j1
    j2 = j2
    Jobs = {j1, j2}
    Dispatchers = {"d1"}
    Scope <- MCScope
    Clerks = {"c1"}
    Executors = {"w1"}
    Period <- MCMixed
    max_attempts = 2
    Horizon = 2
    MaxRuns = 1
SPECIFICATION FairSpec
INVARIANTS
    TypeOK
    OncePerPeriod
    AttemptsAreSpent
PROPERTIES
    DueIsDispatched
    EveryExecutionEnds
CHECK_DEADLOCK FALSE
