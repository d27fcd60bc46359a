\* Two external workers: their requests may overlap.
CONSTANTS
    j1 = j1
    j2 = j2
    Jobs = {j1, j2}
    Dispatchers = {"d1"}
    Scope <- MCScope
    Clerks = {"c1"}
    Executors = {"w1", "w2"}
    Period <- MCOften
    max_attempts = 2
    Horizon = 2
    MaxRuns = 0
SPECIFICATION Spec
PROPERTY
    TerminalIsFinal
CHECK_DEADLOCK FALSE
