\* Three transactions, two companies, four headers, two attempts, under fairness.
CONSTANTS
    Journals = {j1, j2, j3, j4}
    Companies = {c1, c2}
    Sessions = {s1, s2, s3}
    MAX_ATTEMPTS = 2
SPECIFICATION FairSpec
INVARIANTS
    TypeOK
    UniqueNumbers
    GapFree
    OneHolder
    AttemptsAreEarned
    HolderNeverRetries
PROPERTIES
    IsABook
    EveryRequestEnds
CHECK_DEADLOCK FALSE
