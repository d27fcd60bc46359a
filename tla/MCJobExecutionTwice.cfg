\* Two dispatchers: the background task and a request, or two server processes.
CONSTANTS
    j1 = j1
    j2 = j2
    Jobs = {j1, j2}
    Dispatchers = {"d1", "d2"}
    Scope <- MCScope
    Clerks = {"c1"}
    Executors = {"w1"}
    Period <- MCOften
    max_attempts = 2
    Horizon = 2
    MaxRuns = 0
SPECIFICATION Spec
INVARIANT
    OncePerPeriod
CHECK_DEADLOCK FALSE
