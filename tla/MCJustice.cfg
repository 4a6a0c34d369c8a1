SPECIFICATION FairSpec
CONSTANTS
    Members = {m1, m2}
    Officers = {o1, o2}
    MaxOrders <- MCOrders
    MaxTotal = 4
    MaxFaults = 1
INVARIANTS
    StateIsCoherent
    ChargedAreKept
PROPERTY ScheduledGetFree
CHECK_DEADLOCK FALSE
