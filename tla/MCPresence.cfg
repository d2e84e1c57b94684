CONSTANTS
    k1 = k1
    k2 = k2
    k3 = k3
    near = near
    Connections = {k1, k2, k3}
    Observers = {near}
    Budgets <- All
SPECIFICATION FairSpec
INVARIANTS TypeOK ComebackCancels
PROPERTIES GoesOffline StaysShown
CHECK_DEADLOCK FALSE
