\* One world at a time: two requests under way together, five in all, one key; of a register, four
\* requests for two keys.
CONSTANTS
    k1 = k1
    NoKey = NoKey
    NoLine = NoLine
    Worlds <- MCAllWorlds
    Statements <- MCStatements
    Charts <- MCCharts
    Employees <- MCEmployees
    Assets <- MCAssets
    Keys = {k1}
    Sessions = {s1, s2}
    MaxRequests = 5
    RegisterKeys = {x, y}
    Clerks = {c1, c2}
    MaxCalls = 4
SPECIFICATION BackOfficeSpec
INVARIANTS
    JournalsCarryTheirDocument
    OneRecordPerMove
    DepreciationAddsUp
    KeyRunsOnce
    MatchesAreOneToOne
    RegisteredOnce
PROPERTIES
    BatchMovesTogether
CHECK_DEADLOCK FALSE
