SPECIFICATION FairSpec
CONSTANTS
    DepartmentOrder <- MCDepartmentOrder
    Bank = "bank"
    Users <- MCUsers
    Callers = {c1, c2}
    Calls <- MCCalls
    DirectOps <- MCDirectOps
    InitialBalance <- MCInitialBalance
    MaxIssuance = 1
    Throttled = {FALSE, TRUE}
    Connections = 3
    MaxCalls = 2
    MaxDirect = 1
    MaxFaults = 1
INVARIANTS
    BooksAreSound
    GovernanceFollowsLedger
PROPERTY CallsFinish
CHECK_DEADLOCK FALSE
