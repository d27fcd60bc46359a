\* Two overlapping requests on one journal, a log of at most four entries.
CONSTANTS
    j1 = j1
    clerk = clerk
    boss = boss
    root = root
    Journals = {j1}
    Users = {clerk, boss, root}
    Sessions = {s1, s2}
    NoUser = NoUser
    RoleOf <- MCRoleOf
    Amount <- MCAmount
    WorkflowChoices <- MCWorkflows
    MaxLog = 4
SPECIFICATION Spec
SYMMETRY SessionSymmetry
INVARIANTS
    TypeOK
    HistoryWellFounded
    HistoryEndsInStatus
    HistoryIsAWalk
    ApprovalBacked
    ApprovalObeysWorkflow
PROPERTY VoidIsFinal
CHECK_DEADLOCK FALSE
