CONSTANTS
    m1 = m1
    m2 = m2
    x1 = x1
    x2 = x2
    q1 = q1
    q2 = q2
    None = None
    Sources = {m1, m2}
    Files = {x1, x2}
    FilesOf <- Attached
    EmbedsOf <- Rich
    Portions <- Parts
    Images = {m1}
    Requests = {q1, q2}
    MaxFiles = 15
    Budgets <- Live
SPECIFICATION Spec
INVARIANTS SafeToRunAgain

CHECK_DEADLOCK FALSE
