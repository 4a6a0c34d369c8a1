SPECIFICATION MCSpec
CONSTANTS
    Licenses = {"l1", "l2", "l3", "l4"}
    Holder <- MCHolder
    Founded <- MCFounded
    LastId = 6
    Panels = {"v1"}
    Author <- MCAuthor
    Callers = {k1, k2}
    Amounts = {1, 2}
    Funds <- MCFunds
    MaxCalls = 3
    MaxEnds = 1
    Suspects = {1, 2, 3}
    Named = {2}
    Accused = {2}
    PageSize = 2
    Handlers = {h1, h2}
    MaxActs = 3
    MaxFaults = 1
    Proposals = {p1, p2}
    Earlier = {p1}
    Callbacks = {b1, b2}
    NoProposal = none
    MaxMoves = 2
    MaxDue = 1
    MaxMishaps = 1
    Members = {x1}
    Firms = {f1}
    Institutions = {i1}
    Departments = {d1}
    Relocated = {i1, d1}
    Savings = 2
    HistoryPage = 1
    LoadLimit = 2
    HistoryShown = 1
    Clicks = {c1, c2}
    Nobody = nobody
    MaxPresses = 4
    MaxSlips = 1
    Applied = {1, 2, 3}
    KindOf <- MCKindOf
    Waiting = {1, 2}
    AppPage = 3
    Rows = 2
    LicensePage = 1
    Officials = {o1, o2}
    MaxSteps = 3
    MaxLosses = 1
INVARIANTS
    CompaniesAreSound
    CountedWhereCast
    AnnouncementsAreTrue
    PaymentsAreAsTold
    DecidedAsOrdered
    ScreensAreTrue
PROPERTIES
    OnlyTheChosen
CHECK_DEADLOCK FALSE
