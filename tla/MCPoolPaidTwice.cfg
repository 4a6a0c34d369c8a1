CONSTANTS
    alice = alice
    bob = bob
    t1 = t1
    grant = grant
    spend = spend
    Members <- MCMembers
    Government = {}
    TxIds <- MCTxIds
    Requests <- MCRequests
    InitialBalance <- MCBroke
    DailyLimit = 0
    MaxDay = 0
    Transfers = {t1}
    Request <- MCRequest
    Traffic = {grant}
    TrafficRequest <- MCTrafficRequest
    MaxRetry = 3
    MaxAttempts = 1
    MaxFaults = 0
SPECIFICATION Spec
INVARIANT PaidAtMostOnce
CHECK_DEADLOCK FALSE
