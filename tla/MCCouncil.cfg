CONSTANTS
    account = account
    alice = alice
    x = x
    y = y
    z = z
    p1 = p1
    other = other
    c1 = c1
    c2 = c2
    c3 = c3
    Members <- MCMembers
    Government = {}
    TxIds <- MCTxIds
    Requests <- MCRequests
    InitialBalance <- MCBalance
    DailyLimit = 0
    MaxDay = 0
    Proposals = {p1}
    Payment <- MCPayment
    Snapshot <- MCSnapshot
    Calls = {c1, c2, c3}
    Ballots <- MCBallots
    OtherTxIds = {other}
    MaxActive = 1
    MaxFaults = 1
SPECIFICATION FairSpec
INVARIANTS
    TypeOK
    PaidHadMajority
    ExecutedMeansPaid
    OpenIsUnpaid
PROPERTY EveryProposalIsDecided
CHECK_DEADLOCK FALSE
