CONSTANTS
    alice = alice
    bob = bob
    a1 = a1
    a2 = a2
    b1 = b1
    ta = ta
    c1 = c1
    c2 = c2
    Channels = {c1, c2}
    Users = {alice, bob}
    Bot = bob
    Sids = {a1, a2, b1}
    NoSid = NoSid
    TrackSids = {ta}
    MusicSid = MusicSid
    AudioStates = {open}
    Neutral = open
    SidOwner <- MCSidOwner
    TrackSession <- MCTrackSession
    HiddenSids = {b1}
    SeenCap = 1
    Budgets <- MCBudgets
SPECIFICATION FairSpec
INVARIANTS TypeOK
PROPERTIES LiveRowsSurvive Converges ProvisionalsResolve
