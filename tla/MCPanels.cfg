SPECIFICATION MCSpec
CONSTANTS
    Departments = {"finance"}
    Payees = {"p1", "p2"}
    Amounts = {1}
    Clickers = {"click"}
    Handlers = {"h1", "h2"}
    MaxActs = 4
    MaxMishaps = 1
INVARIANTS
    PanelIsTrue
    
PROPERTY NewsReachesScreen
CHECK_DEADLOCK FALSE
