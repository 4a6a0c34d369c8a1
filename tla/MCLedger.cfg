CONSTANTS
    alice = alice
    bob = bob
    dept = dept
    none = none
    nothing = nothing
    c1 = c1
    c2 = c2
    c3 = c3
    Members <- MCMembers
    Government <- MCGovernment
    TxIds <- Calls
    Requests <- MCRequests
    InitialBalance <- MCInitialBalance
    InitialRows <- MCInitialRows
    NoTx = none
    NoWrite = nothing
    DailyLimit = 3
    MaxDay = 1
SPECIFICATION Spec
INVARIANTS
    ReadsStayTrue
    LimitCheckStaysTrue
    NoOverdraft
    LockingInv
    AuditTrailIsSound
PROPERTIES
    ImplementsLedger
SYMMETRY Interchangeable
CHECK_DEADLOCK FALSE
