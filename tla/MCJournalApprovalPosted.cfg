\* The same instance, asking whether "posted" is final.
CONSTANTS
    j1 = j1
    clerk = clerk
    boss = boss
    root = root
    Journals = {j1}
    Users = {clerk, boss, root}
    Sessions = {s1, s2}
    NoUser = NoUser
    RoleOf <- MCRoleOf
    Amount <- MCAmount
    WorkflowChoices <- MCWorkflows
    MaxLog = 4
SPECIFICATION Spec
SYMMETRY SessionSymmetry
PROPERTY PostedIsFinal
CHECK_DEADLOCK FALSE
