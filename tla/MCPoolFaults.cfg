CONSTANTS
    alice = alice
    bob = bob
    t1 = t1
    grant = grant
    spend = spend
    Members <- MCMembers
    Government = {}
    TxIds <- MCTxIds
    Requests <- MCRequests
    InitialBalance <- MCBroke
    DailyLimit = 4
    MaxDay = 1
    Transfers = {t1}
    Request <- MCRequest
    Traffic = {grant, spend}
    TrafficRequest <- MCLimitTrafficRequest
    MaxRetry = 2
    MaxAttempts = 2
    MaxFaults = 1
SPECIFICATION Spec
INVARIANTS
    PaidOncePerRound
CHECK_DEADLOCK FALSE
