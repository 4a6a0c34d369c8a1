SPECIFICATION FairSpec
CONSTANTS
    m1 = m1
    m2 = m2
    Members = {m1, m2}
    Agendas <- MCAgendas
    MaxSummons = 4
    MaxProposals = 2
    Callers = {c1, c2}
    MaxActive = 1
    MaxCalls = 4
    MaxFaults = 1
INVARIANTS
    DecisionsAreSound
    SummonsesAreTrue
    SettingsAreKept
PROPERTIES
    EveryProposalCloses
CHECK_DEADLOCK FALSE
