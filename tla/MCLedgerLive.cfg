CONSTANTS
    alice = alice
    bob = bob
    dept = dept
    none = none
    nothing = nothing
    c1 = c1
    c2 = c2
    c3 = c3
    Members <- MCMembers
    Government <- MCGovernment
    TxIds = {c1, c2, c3}
    Requests <- MCLiveRequests
    InitialBalance <- MCInitialBalance
    InitialRows <- MCInitialRows
    NoTx = none
    NoWrite = nothing
    DailyLimit = 0
    MaxDay = 0
SPECIFICATION FairSpec
PROPERTY EveryCallEnds
CHECK_DEADLOCK FALSE
