CONSTANTS
    a1 = a1
    a2 = a2
    b = b
    r1 = r1
    r2 = r2
    f = f
    None = None
    Removed = Removed
    Devices = {a1, a2, b}
    Requests = {r1, r2}
    Files = {f}
    User <- Users
    Sender <- Senders
    FilesOf <- Attach
    Contents <- Texts
    Link <- Leads
    Budgets <- Dropping
SPECIFICATION FairSpec
PROPERTIES FailedSendsStay
CHECK_DEADLOCK FALSE
