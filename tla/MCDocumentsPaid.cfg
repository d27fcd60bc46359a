\* A month's payroll, requests one after the other.
CONSTANTS
    k1 = k1
    NoKey = NoKey
    Worlds <- OnlyPayroll
    Charts = {{}}
    Employees <- MCEmployees
    Assets <- MCAssets
    Keys = {k1}
    Sessions = {s1}
    MaxRequests = 5
SPECIFICATION Spec
PROPERTIES
    PaidIsFinal
CHECK_DEADLOCK FALSE
