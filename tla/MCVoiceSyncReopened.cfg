CONSTANTS
    alice = alice
    bob = bob
    a1 = a1
    b1 = b1
    c1 = c1
    c2 = c2
    Channels = {c1, c2}
    Users = {alice, bob}
    Bot = bob
    Sids = {a1, b1}
    NoSid = NoSid
    TrackSids = {}
    MusicSid = MusicSid
    AudioStates = {open, mute}
    Neutral = open
    SidOwner <- MCSidOwner
    Budgets <- Reopened
SPECIFICATION Spec
INVARIANTS LossIsDetectable
CHECK_DEADLOCK FALSE
