\* Orders of 3 and 4 pieces shipped in up to 4 parts and 2 deposits; 32 ladders of amounts;
\* a year with two arrivals, departures, recalculations, overlaps, months of overtime or early
\* year-ends.
CONSTANTS
    ValueError = ValueError
    None = None
    FirstYear = 2024
    Years = 8
    Orders <- MCOrders
    Terms <- MCTerms
    Holidays = {59}
    ShipDays = {14, 24}
    Portions = {1, 2}
    Transfers <- MCTransfers
    AsOf = 100
    FeeTolerance = 70
    Allowance = 500
    MaxShipments = 4
    MaxDeposits = 2
    Ladders <- MCLadders
    clerk = clerk
    director = director
    Employees = {clerk, director}
    Clerks = {c1, c2}
    YEAR = 2025
    Newcomers = {clerk}
    OVERTIME = {0, 70}
    BONUS_MONTHS = {3}
    BONUS_DAYS <- MCDays
    MASTER <- MCMaster
    HEALTH_RATE = 991
    CARE_RATE = None
    MAX_DEVIATIONS = 2
SYMMETRY Symmetry
SPECIFICATION CalculatorsSpec
INVARIANTS
    NextRunIsEarliest
    WithholdingReconciles
    BonusPremiumIsCapped
PROPERTIES
    MoneyIsCountedOnce
    PartsMakeTheWhole
    MoreIsMore
CHECK_DEADLOCK FALSE
