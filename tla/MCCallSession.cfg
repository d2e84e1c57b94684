CONSTANTS
    c1 = c1
    c2 = c2
    Channels = {c1, c2}
    None = None
    Budgets <- All
SPECIFICATION FairSpec
INVARIANTS TypeOK NothingOutlives LatestRequestWins ConnectedIsShown
PROPERTIES LeavingIsQuiet RequestsSettle
CHECK_DEADLOCK FALSE
