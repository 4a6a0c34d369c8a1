SPECIFICATION FairSpec
CONSTANTS
    Members = {m1}
    Amounts = {2}
    Types <- MCTypes
    Callers = {c1, c2}
    Connections = 3
    InitialFunds = 4
    MaxApps = 3
    MaxReviews = 3
    MaxFaults = 1
INVARIANTS
    ApprovalsAreHonoured
PROPERTIES
    DecisionsAreFinal
    CallsEnd
CHECK_DEADLOCK FALSE
