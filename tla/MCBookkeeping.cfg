\* Two journals, three changes and two overlapping scans.
CONSTANTS
    ValueError = ValueError
    None = None
    FirstYear = 2024
    Years = 1
    Chart <- MCChart
    AccountTypes = {"asset"}
    Payloads <- MCPayloads
    Today = 50
    Auditors = {a1, a2}
    MaxJournals = 2
    MaxChanges = 3
SYMMETRY Symmetry
SPECIFICATION Spec
INVARIANTS
    BooksBalance
    FoundOnce
CHECK_DEADLOCK FALSE
