CONSTANTS
    LoopsAtOnce = 3
    Allowances <- All
SPECIFICATION SocketFairSpec
INVARIANTS SocketTypeOK
PROPERTIES LiveSocketIsKept Reconnects LogoutEnds
CHECK_DEADLOCK FALSE
